---- MODULE Spec2Model ----
(***************************************************************************)
(* Verification model of the wow-rs asset decoders: the alpha-map decoder  *)
(* (alpha_map.rs), the BLP image decoder (blp.rs), the chunk pre-scan      *)
(* (chunked.rs), the resource-name splitter (reader/mod.rs), the terrain   *)
(* tile decoder (adt.rs) and the world-model decoder (wmo.rs).             *)
(*                                                                         *)
(* Every decoder is a synchronous call on a byte stream.  Each component   *)
(* has its own specification: Init draws the call's input from a bounded   *)
(* set, and one action per public operation applies the operation as the   *)
(* source computes it and stores what it returns.                          *)
(***************************************************************************)
EXTENDS Integers, Sequences, FiniteSets, TLC

VARIABLES
    pc,          \* name of the operation that acted last ("init" before any)
    arg,         \* the arguments of the call in progress or last made
    reader,      \* the byte source of the call: [buf, pos], pos = bytes consumed
    data,        \* the Vec that AlphaMap::read_compressed is filling
    alpha_map,   \* io::Result<AlphaMap> of the last AlphaMap::read_* call
    sample,      \* outcome of the last AlphaMap::get call
    chunk_map,   \* io::Result<ChunkMap> of read_chunks_into_map (Chunked.inner)
    found,       \* outcome of the last Chunked::get call
    parts,       \* what split_resource_name returned: (dir, file, ext), or a panic
    map_object,  \* io::Result<MapObject> of wmo::load
    mesh_group,  \* io::Result<MeshGroup> of MeshGroupInfo::load
    mesh_groups, \* Vec<MeshGroup> of MapObject::load_all_groups
    strings,     \* io::Result of read_cstring_table_with and the callback's arguments
    triangles,   \* the index triples MapChunk::each_triangle has passed to f
    quad,        \* the number of passes of the inner loop of each_triangle made
    vertices,    \* the MapChunkVertices iterator: [index]
    vertex,      \* what the last MapChunkVertices::next returned
    image,       \* io::Result<Image> of blp::load
    map_tile,    \* the MapTile that MapTile::load is filling
    adt_file,    \* the targets of MapTile::load and the locals of read_adt_file
    loaded,      \* how MapTile::load ended: Ok (map_tile is returned), Err, Panic
    calls,       \* the MeshGroupInfo::load calls in flight, each with its own locals
    returned     \* per group, the results its load calls have returned so far

alphaVars == <<data, alpha_map, sample>>
chunkVars == <<chunk_map, found>>

splitVars == <<parts>>

tableVars == <<strings>>
geomVars == <<triangles, quad, vertices, vertex>>
wmoVars == <<map_object, mesh_group, mesh_groups>>
blpVars == <<image>>
adtVars == <<map_tile, adt_file, loaded>>
loadVars == <<calls, returned>>

vars == <<pc, arg, reader, alphaVars, chunkVars, splitVars, tableVars, geomVars, wmoVars, blpVars, adtVars, loadVars>>

None == [tag |-> "None"]

\* the variables of a component that the running specification does not use
IdleAlpha == data = <<>> /\ alpha_map = None /\ sample = None
IdleChunk == chunk_map = None /\ found = None
IdleSplit == parts = None
IdleTable == strings = None
IdleGeom == triangles = None /\ quad = None /\ vertices = None /\ vertex = None
IdleWmo == map_object = None /\ mesh_group = None /\ mesh_groups = None
IdleBlp == image = None
IdleAdt == map_tile = None /\ adt_file = None /\ loaded = None
IdleLoads == calls = None /\ returned = None

(***************************************************************************)
(* Generic helpers                                                         *)
(***************************************************************************)
Min(a, b) == IF a < b THEN a ELSE b

Rep(x, n) == [i \in 1..n |-> x]

RECURSIVE Flatten(_)
Flatten(ss) == IF ss = <<>> THEN <<>> ELSE Head(ss) \o Flatten(Tail(ss))

RECURSIVE SeqsUpTo(_, _)
SeqsUpTo(S, n) ==
    IF n = 0 THEN {<<>>}
    ELSE LET shorter == SeqsUpTo(S, n - 1)
         IN  shorter \cup {Append(s, x) : s \in {t \in shorter : Len(t) = n - 1}, x \in S}

\* Rust's integer `^` is bitwise exclusive or
RECURSIVE BitXor(_, _)
BitXor(a, b) ==
    IF a = 0 /\ b = 0 THEN 0
    ELSE (((a % 2) + (b % 2)) % 2) + 2 * BitXor(a \div 2, b \div 2)

Err(kind) == [tag |-> "Err", kind |-> kind]

(***************************************************************************)
(* read_ext.rs: reading from a std::io::Read                               *)
(***************************************************************************)
Remaining(r) == Len(r.buf) - r.pos

\* read_vec: take(size).read_to_end, then UnexpectedEof when it came short
read_vec(r, size) ==
    LET bytes_read == Min(size, Remaining(r))
        after == [r EXCEPT !.pos = r.pos + bytes_read]
    IN  IF bytes_read < size
        THEN [ok |-> FALSE, kind |-> "UnexpectedEof", data |-> <<>>, rd |-> after]
        ELSE [ok |-> TRUE, kind |-> "", rd |-> after,
              data |-> SubSeq(r.buf, r.pos + 1, r.pos + size)]

(***************************************************************************)
(* alpha_map.rs                                                            *)
(***************************************************************************)
ALPHAMAP_SIDE == 64
ALPHAMAP_SIZE == BitXor(ALPHAMAP_SIDE, 2)

\* what a 64 x 64 grid holds: the number of samples AlphaValues iterates over
AlphaSamples == 64 * 64

\* AlphaMap::read_raw
read_raw(r, is_u4) ==
    LET len == IF is_u4 THEN ALPHAMAP_SIZE \div 2 ELSE ALPHAMAP_SIZE
        got == read_vec(r, len)
    IN  [rd  |-> got.rd,
         res |-> IF got.ok THEN [tag |-> "Ok", is_u4 |-> is_u4, data |-> got.data]
                 ELSE Err(got.kind)]

\* one pass of the while loop of AlphaMap::read_compressed: a control byte and
\* its run; res stays None while the call goes on
read_compressed_step(r, acc) ==
    IF Remaining(r) = 0
    THEN [rd |-> r, data |-> acc, res |-> Err("UnexpectedEof")]
    ELSE LET byte == r.buf[r.pos + 1]
             fill_mode == byte >= 128          \* byte & 0x80 != 0
             count == byte % 128               \* byte & 0x7f
             r1 == [r EXCEPT !.pos = r.pos + 1]
         IN  IF fill_mode
             THEN IF Remaining(r1) = 0
                  THEN [rd |-> r1, data |-> acc, res |-> Err("UnexpectedEof")]
                  ELSE [rd   |-> [r1 EXCEPT !.pos = r1.pos + 1],
                        data |-> acc \o Rep(r1.buf[r1.pos + 1], count),
                        res  |-> None]
             ELSE LET n == Min(count, Remaining(r1))
                  IN  [rd   |-> [r1 EXCEPT !.pos = r1.pos + n],
                       data |-> acc \o SubSeq(r1.buf, r1.pos + 1, r1.pos + n),
                       res  |-> None]

\* the check after the loop of AlphaMap::read_compressed
read_compressed_end(acc) ==
    IF Len(acc) = ALPHAMAP_SIZE
    THEN [tag |-> "Ok", is_u4 |-> FALSE, data |-> acc]
    ELSE Err("InvalidData")

\* AlphaMap::get; indexing past the end of data panics
get(map, index) ==
    IF index \div 2 >= Len(map.data)
    THEN [tag |-> "Panic", index |-> index]
    ELSE LET value == map.data[index \div 2 + 1]
         IN  [tag |-> "Ok", index |-> index,
              value |-> IF map.is_u4
                        THEN IF (value % 2) = 0
                             THEN value % 16          \* value & 0b00001111
                             ELSE value \div 16       \* (value & 0b11110000) >> 4
                        ELSE value]

(***************************************************************************)
(* Alpha-map inputs: streams built from at most MaxBlocks blocks, a block  *)
(* being one byte value repeated.  The byte values are control bytes of    *)
(* both run kinds (copy 0, copy 33, copy 66, fill 33, fill 66, fill 127).  *)
(***************************************************************************)
MaxBlocks == 2

AlphaBytes == {0, 33, 66, 161, 194, 255}
AlphaRepeats == {1, 2, 33, 65}
AlphaBlocks == {Rep(b, n) : b \in AlphaBytes, n \in AlphaRepeats}
AlphaStreams == {Flatten(bs) : bs \in SeqsUpTo(AlphaBlocks, MaxBlocks)}
SampleIndexes == {0, 1, 2, 3, 32, 33, 64, 65, 66, 67, 4094, 4095}

InitAlpha ==
    /\ pc = "init"
    /\ arg = None
    /\ reader \in {[buf |-> s, pos |-> 0] : s \in AlphaStreams}
    /\ IdleAlpha
    /\ IdleChunk
    /\ IdleSplit
    /\ IdleTable
    /\ IdleGeom
    /\ IdleWmo
    /\ IdleBlp
    /\ IdleAdt
    /\ IdleLoads

DoReadRaw ==
    /\ pc = "init"
    /\ \E is_u4 \in BOOLEAN :
         LET out == read_raw(reader, is_u4)
         IN  /\ reader' = out.rd
             /\ alpha_map' = out.res
             /\ arg' = [is_u4 |-> is_u4]
    /\ pc' = "read_raw"
    /\ UNCHANGED <<data, sample, chunkVars, splitVars, tableVars, geomVars, wmoVars, blpVars, adtVars, loadVars>>

\* AlphaMap::read_compressed, one loop pass at a time
DoReadCompressedStep ==
    /\ pc \in {"init", "read_compressed_loop"}
    /\ Len(data) < ALPHAMAP_SIZE
    /\ LET out == read_compressed_step(reader, data)
       IN  /\ reader' = out.rd
           /\ data' = out.data
           /\ alpha_map' = out.res
           /\ pc' = IF out.res = None THEN "read_compressed_loop" ELSE "read_compressed"
    /\ UNCHANGED <<arg, sample, chunkVars, splitVars, tableVars, geomVars, wmoVars, blpVars, adtVars, loadVars>>

DoReadCompressedEnd ==
    /\ pc = "read_compressed_loop"
    /\ Len(data) >= ALPHAMAP_SIZE
    /\ alpha_map' = read_compressed_end(data)
    /\ pc' = "read_compressed"
    /\ UNCHANGED <<arg, reader, data, sample, chunkVars, splitVars, tableVars, geomVars, wmoVars, blpVars, adtVars, loadVars>>

DoGet ==
    /\ alpha_map.tag = "Ok"
    /\ \E index \in SampleIndexes : sample' = get(alpha_map, index)
    /\ UNCHANGED <<pc, arg, reader, data, alpha_map, chunkVars, splitVars, tableVars, geomVars, wmoVars, blpVars, adtVars, loadVars>>

NextAlpha == DoReadRaw \/ DoReadCompressedStep \/ DoReadCompressedEnd \/ DoGet

SpecAlpha == InitAlpha /\ [][NextAlpha]_vars

(***************************************************************************)
(* chunked.rs: the pre-scan of a chunk stream into a token table           *)
(***************************************************************************)
Reverse(s) == [i \in 1..Len(s) |-> s[Len(s) + 1 - i]]

IsCont(b) == b >= 128 /\ b <= 191

\* std::str::from_utf8 succeeds: the bytes are well-formed UTF-8
RECURSIVE Utf8Valid(_)
Utf8Valid(bs) ==
    IF bs = <<>> THEN TRUE
    ELSE LET b == bs[1]
             n == Len(bs)
         IN  IF b < 128 THEN Utf8Valid(Tail(bs))
             ELSE IF b >= 194 /\ b <= 223
             THEN n >= 2 /\ IsCont(bs[2]) /\ Utf8Valid(SubSeq(bs, 3, n))
             ELSE IF b >= 224 /\ b <= 239
             THEN /\ n >= 3
                  /\ IsCont(bs[2]) /\ IsCont(bs[3])
                  /\ (b = 224 => bs[2] >= 160)
                  /\ (b = 237 => bs[2] <= 159)
                  /\ Utf8Valid(SubSeq(bs, 4, n))
             ELSE IF b >= 240 /\ b <= 244
             THEN /\ n >= 4
                  /\ IsCont(bs[2]) /\ IsCont(bs[3]) /\ IsCont(bs[4])
                  /\ (b = 240 => bs[2] >= 144)
                  /\ (b = 244 => bs[2] <= 143)
                  /\ Utf8Valid(SubSeq(bs, 5, n))
             ELSE FALSE

\* byteorder's read_u32::<LittleEndian> of four bytes (the inputs of the model
\* keep u32 fields below 2^31)
LE32(bs) == bs[1] + 256 * bs[2] + 65536 * bs[3] + 16777216 * bs[4]

\* mutant of PushChunk: a repeated token replaces the list it already has
PushChunk_KeepLast(map, token, payload) ==
    [t \in DOMAIN map \cup {token} |-> IF t = token THEN <<payload>> ELSE map[t]]

\* HashMap entry update of read_chunks_into_map: push onto the token's list,
\* or insert a one-element list
PushChunk(map, token, payload) ==
    [t \in DOMAIN map \cup {token} |->
        IF t = token
        THEN IF token \in DOMAIN map THEN Append(map[token], payload) ELSE <<payload>>
        ELSE map[t]]

\* the token is the four stored bytes, reversed unless the stream is a legion m2
TokenOf(token_buffer, legion_m2) ==
    IF legion_m2 THEN token_buffer ELSE Reverse(token_buffer)

\* the payload read of read_chunks_into_map: take(size).read_to_end, whose
\* byte count is not compared with size
ReadPayload(r, size) ==
    LET n == Min(size, Remaining(r))
    IN  [data |-> SubSeq(r.buf, r.pos + 1, r.pos + n),
         rd   |-> [r EXCEPT !.pos = r.pos + n]]

\* mutant of TokenReadOutcome: a short token read is taken for the end of input
TokenReadOutcome_ShortIsEnd(bytes) ==
    IF bytes < 4 THEN "end" ELSE "token"

\* the match on input.read(&mut token_buffer): how many bytes the read returned
TokenReadOutcome(bytes) ==
    IF bytes = 0 THEN "end"
    ELSE IF bytes < 4 THEN "incomplete"
    ELSE "token"

\* read_chunks_into_map: the loop, from a reader positioned at a record start.
\* The source is in memory, so a read of 4 returns min(4, bytes left).
RECURSIVE read_chunks_into_map(_, _, _)
read_chunks_into_map(r, legion_m2, result) ==
    LET bytes == Min(4, Remaining(r))
        outcome == TokenReadOutcome(bytes)
    IN  IF outcome = "end"
        THEN [rd |-> [r EXCEPT !.pos = r.pos + bytes],
              res |-> [tag |-> "Ok", map |-> result]]
        ELSE IF outcome = "incomplete"
        THEN [rd |-> [r EXCEPT !.pos = r.pos + bytes], res |-> Err("UnexpectedEof")]
        ELSE LET token == TokenOf(SubSeq(r.buf, r.pos + 1, r.pos + 4), legion_m2)
                 r1 == [r EXCEPT !.pos = r.pos + 4]
             IN  IF ~Utf8Valid(token) THEN [rd |-> r1, res |-> Err("InvalidData")]
                 ELSE IF Remaining(r1) < 4
                 THEN [rd |-> [r1 EXCEPT !.pos = Len(r1.buf)], res |-> Err("UnexpectedEof")]
                 ELSE LET size == LE32(SubSeq(r1.buf, r1.pos + 1, r1.pos + 4))
                          got == ReadPayload([r1 EXCEPT !.pos = r1.pos + 4], size)
                      IN  read_chunks_into_map(got.rd, legion_m2,
                                               PushChunk(result, token, got.data))

\* Chunked::get: the first payload of the token
Chunked_get(map, token) ==
    IF token \in DOMAIN map /\ map[token] # <<>>
    THEN [tag |-> "Ok", token |-> token, data |-> map[token][1]]
    ELSE [tag |-> "Err", token |-> token, kind |-> "InvalidData"]

(***************************************************************************)
(* Chunk-stream inputs: at most MaxRecords complete records followed by a  *)
(* tail, the tail being a proper prefix of one more record (so 1 to 3      *)
(* stray bytes, a cut length field or a cut payload).                      *)
(***************************************************************************)
MaxRecords == 2

\* stored token bytes: "MVER" and "MCNK" mirrored, "BA" + U+00E9 mirrored
\* (text only when reversed), and bytes that are text in neither order
StoredTokens == {<<82, 69, 86, 77>>, <<75, 78, 67, 77>>,
                 <<169, 195, 65, 66>>, <<255, 65, 66, 67>>}
Payloads == {<<>>, <<7>>, <<7, 9>>}

\* the four little-endian bytes of a 32-bit value (two's complement if negative)
ToLE32(n) == <<n % 256, (n \div 256) % 256, (n \div 65536) % 256, (n \div 16777216) % 256>>

EncodeRecord(rec) == rec.token \o ToLE32(Len(rec.payload)) \o rec.payload

ChunkRecords == {[token |-> t, payload |-> p] : t \in StoredTokens, p \in Payloads}

TailRecord == <<82, 69, 86, 77, 2, 0, 0, 0, 7, 9>>
Tails == {SubSeq(TailRecord, 1, n) : n \in 0..(Len(TailRecord) - 1)}

EncodeStream(recs, tail) ==
    Flatten([i \in 1..Len(recs) |-> EncodeRecord(recs[i])]) \o tail

InitChunk ==
    /\ pc = "init"
    /\ \E recs \in SeqsUpTo(ChunkRecords, MaxRecords), tail \in Tails, legion_m2 \in BOOLEAN :
         /\ arg = [records |-> recs, tail |-> tail, legion_m2 |-> legion_m2]
         /\ reader = [buf |-> EncodeStream(recs, tail), pos |-> 0]
    /\ IdleAlpha
    /\ IdleChunk
    /\ IdleSplit
    /\ IdleTable
    /\ IdleGeom
    /\ IdleWmo
    /\ IdleBlp
    /\ IdleAdt
    /\ IdleLoads

\* Chunked::read and Chunked::read_legion_m2
DoChunkedRead ==
    /\ pc = "init"
    /\ LET out == read_chunks_into_map(reader, arg.legion_m2, <<>>)
       IN  /\ reader' = out.rd
           /\ chunk_map' = out.res
    /\ pc' = "read_chunks_into_map"
    /\ UNCHANGED <<arg, found, alphaVars, splitVars, tableVars, geomVars, wmoVars, blpVars, adtVars, loadVars>>

DoChunkedGet ==
    /\ chunk_map.tag = "Ok"
    /\ \E stored \in StoredTokens, rev \in BOOLEAN :
         found' = Chunked_get(chunk_map.map, IF rev THEN Reverse(stored) ELSE stored)
    /\ UNCHANGED <<pc, arg, reader, chunk_map, alphaVars, splitVars, tableVars, geomVars, wmoVars, blpVars, adtVars, loadVars>>

NextChunk == DoChunkedRead \/ DoChunkedGet

SpecChunk == InitChunk /\ [][NextChunk]_vars


(***************************************************************************)
(* reader/mod.rs: split_resource_name.  A &str is modelled by its chars    *)
(* (code points); its length and its slices are counted in UTF-8 bytes.    *)
(***************************************************************************)
DOT == 46
SLASH == 47
BACKSLASH == 92

\* UTF-8 encoding of one char (code points below U+0800)
Utf8Char(c) == IF c < 128 THEN <<c>> ELSE <<192 + (c \div 64), 128 + (c % 64)>>

\* str::len of the first n chars: the byte offset at which char n + 1 starts
RECURSIVE ByteLen(_, _)
ByteLen(chars, n) ==
    IF n = 0 THEN 0 ELSE ByteLen(chars, n - 1) + Len(Utf8Char(chars[n]))

\* str::is_char_boundary
IsCharBoundary(chars, off) == \E n \in 0..Len(chars) : ByteLen(chars, n) = off

\* &input[from..to]: the chars between two byte offsets (both on boundaries)
StrSlice(chars, from, to) ==
    LET a == CHOOSE n \in 0..Len(chars) : ByteLen(chars, n) = from
        b == CHOOSE n \in 0..Len(chars) : ByteLen(chars, n) = to
    IN  SubSeq(chars, a + 1, b)

\* the match of one loop pass: index counts chars from the end, len is in bytes
SplitPos(len, index, ch, acc) ==
    LET pos == len - (index + 1)
    IN  IF ch = DOT THEN [acc EXCEPT !.ext_pos = pos]
        ELSE IF ch \in {SLASH, BACKSLASH}
        THEN [acc EXCEPT !.file_pos = pos + 1, !.done = TRUE]
        ELSE acc

\* for (index, ch) in input.chars().rev().enumerate()
RECURSIVE SplitScan(_, _, _)
SplitScan(chars, index, acc) ==
    IF acc.done \/ index >= Len(chars) THEN acc
    ELSE SplitScan(chars, index + 1,
                   SplitPos(ByteLen(chars, Len(chars)), index, chars[Len(chars) - index], acc))

\* split_resource_name; slicing a str off a char boundary panics
split_resource_name(input) ==
    LET len == ByteLen(input, Len(input))
        at == SplitScan(input, 0, [ext_pos |-> len, file_pos |-> 0, done |-> FALSE])
    IN  IF /\ IsCharBoundary(input, at.file_pos)
           /\ IsCharBoundary(input, at.ext_pos)
           /\ at.file_pos <= at.ext_pos
        THEN [tag  |-> "Ok",
              dir  |-> StrSlice(input, 0, at.file_pos),
              file |-> StrSlice(input, at.file_pos, at.ext_pos),
              ext  |-> StrSlice(input, at.ext_pos, len)]
        ELSE [tag |-> "Panic"]

(***************************************************************************)
(* Resource names: every string of at most MaxNameLen chars over a letter, *)
(* the dot, both separators and one two-byte char.                         *)
(***************************************************************************)
MaxNameLen == 5

NameChars == {97, DOT, SLASH, BACKSLASH, 233}
Names == SeqsUpTo(NameChars, MaxNameLen)

InitSplit ==
    /\ pc = "init"
    /\ arg \in {[input |-> n] : n \in Names}
    /\ reader = None
    /\ IdleAlpha
    /\ IdleChunk
    /\ IdleSplit
    /\ IdleTable
    /\ IdleGeom
    /\ IdleWmo
    /\ IdleBlp
    /\ IdleAdt
    /\ IdleLoads

DoSplit ==
    /\ pc = "init"
    /\ parts' = split_resource_name(arg.input)
    /\ pc' = "split_resource_name"
    /\ UNCHANGED <<arg, reader, alphaVars, chunkVars, tableVars, geomVars, wmoVars, blpVars, adtVars, loadVars>>

NextSplit == DoSplit

SpecSplit == InitSplit /\ [][NextSplit]_vars


(***************************************************************************)
(* read_ext.rs: offset-addressed string tables.  A String read from a      *)
(* chunk is modelled by its UTF-8 bytes.                                   *)
(***************************************************************************)
\* read_cstring_table_with: the loop, one byte per pass; out collects the
\* (string_id, string) pairs handed to the callback, in call order
RECURSIVE cstring_table_loop(_, _, _, _, _)
cstring_table_loop(bytes, index, string_buffer, string_id, out) ==
    LET done == index >= Len(bytes)
        byte == IF done THEN 0 ELSE bytes[index + 1]
    IN  IF byte # 0
        THEN cstring_table_loop(bytes, index + 1, Append(string_buffer, byte),
                                IF string_buffer = <<>> THEN index ELSE string_id, out)
        ELSE IF string_buffer # <<>>
        THEN IF ~Utf8Valid(string_buffer) THEN Err("InvalidData")
             ELSE LET out1 == Append(out, [id |-> string_id, string |-> string_buffer])
                  IN  IF done THEN [tag |-> "Ok", entries |-> out1]
                      ELSE cstring_table_loop(bytes, index + 1, <<>>, -1, out1)
        ELSE IF done THEN [tag |-> "Ok", entries |-> out]
        ELSE cstring_table_loop(bytes, index + 1, <<>>, string_id, out)

\* mutant of read_cstring_table_with: a string that the end of the block
\* terminates is not reported
read_cstring_table_with_NeedsZero(bytes) ==
    LET drop(t) == IF t.tag = "Ok" /\ bytes # <<>> /\ bytes[Len(bytes)] # 0
                   THEN [t EXCEPT !.entries = SubSeq(@, 1, Len(@) - 1)]
                   ELSE t
    IN  drop(cstring_table_loop(bytes, 0, <<>>, -1, <<>>))

read_cstring_table_with(bytes) == cstring_table_loop(bytes, 0, <<>>, -1, <<>>)

\* BTreeMap::insert of every entry, in callback order (read_cstring_table_into)
RECURSIVE InsertAll(_, _)
InsertAll(table, entries) ==
    IF entries = <<>> THEN table
    ELSE InsertAll([k \in DOMAIN table \cup {entries[1].id} |->
                       IF k = entries[1].id THEN entries[1].string ELSE table[k]],
                   Tail(entries))

(***************************************************************************)
(* String-block inputs: every block of at most MaxBlockLen bytes over a    *)
(* zero byte, 'a', and the two bytes of a two-byte UTF-8 char (each of     *)
(* which alone is invalid UTF-8).                                          *)
(***************************************************************************)
MaxBlockLen == 5

BlockBytes == {0, 97, 195, 169}

InitTable ==
    /\ pc = "init"
    /\ arg \in SeqsUpTo(BlockBytes, MaxBlockLen)
    /\ reader = None
    /\ IdleAlpha
    /\ IdleChunk
    /\ IdleSplit
    /\ IdleTable
    /\ IdleGeom
    /\ IdleWmo
    /\ IdleBlp
    /\ IdleAdt
    /\ IdleLoads

DoReadCstringTable ==
    /\ pc = "init"
    /\ strings' = read_cstring_table_with(arg)
    /\ pc' = "read_cstring_table_with"
    /\ UNCHANGED <<arg, reader, alphaVars, chunkVars, splitVars, geomVars, wmoVars, blpVars, adtVars, loadVars>>

NextTable == DoReadCstringTable

SpecTable == InitTable /\ [][NextTable]_vars

(***************************************************************************)
(* wmo.rs: the root file                                                   *)
(***************************************************************************)
WMO_VERSION == 17
MOGI_RECORD == 32
MOMT_RECORD == 64
MOHD_SIZE == 64

\* read_i32::<LE>: two's complement, the top bit of the last byte is the sign
LEi32(bs) ==
    bs[1] + 256 * bs[2] + 65536 * bs[3]
        + 16777216 * (IF bs[4] >= 128 THEN bs[4] - 256 ELSE bs[4])

\* decimal digits of a number
RECURSIVE Digits(_)
Digits(n) == IF n < 10 THEN <<48 + n>> ELSE Append(Digits(n \div 10), 48 + (n % 10))

\* format!("{:03}", index): zero-padded to a width of at least 3
Pad03(index) ==
    LET ds == Digits(index)
    IN  IF Len(ds) >= 3 THEN ds ELSE Rep(48, 3 - Len(ds)) \o ds

\* ".wmo"
GROUP_EXT == <<46, 119, 109, 111>>

\* mutant of GroupPath: the index is padded to two digits
GroupPath_Pad2(split, index) ==
    split.dir \o split.file \o <<95>>
        \o (IF index < 10 THEN <<48>> \o Digits(index) ELSE Digits(index)) \o GROUP_EXT

\* format!("{}{}_{:03}.wmo", dir, file, index)
GroupPath(split, index) ==
    split.dir \o split.file \o <<95>> \o Pad03(index) \o GROUP_EXT

\* one pass of the MOGI loop: the let_read! of record `index` and the
\* MeshGroupInfo built from it
MeshGroupInfoAt(bytes, index, split, group_names_table) ==
    LET base == MOGI_RECORD * index
        name_offset == LEi32(SubSeq(bytes, base + 29, base + 32))
    IN  [resource_key |-> GroupPath(split, index),
         flags |-> LE32(SubSeq(bytes, base + 1, base + 4)),
         bounding_box_min |-> SubSeq(bytes, base + 5, base + 16),
         bounding_box_max |-> SubSeq(bytes, base + 17, base + 28),
         name |-> IF name_offset >= 0 /\ name_offset \in DOMAIN group_names_table
                  THEN [tag |-> "Some", string |-> group_names_table[name_offset]]
                  ELSE None]

\* the body of the chunk loop of wmo::load for one chunk; st holds the
\* MapObject under construction and the three offset tables
wmo_chunk(name, chunk, st) ==
    IF chunk.token = "MVER"
    THEN IF Len(chunk.data) < 4 THEN [st EXCEPT !.res = Err("UnexpectedEof")]
         ELSE IF LE32(SubSeq(chunk.data, 1, 4)) # WMO_VERSION
         THEN [st EXCEPT !.res = Err("InvalidData")]
         ELSE st
    ELSE IF chunk.token = "MOHD"
    THEN IF Len(chunk.data) < MOHD_SIZE THEN [st EXCEPT !.res = Err("UnexpectedEof")] ELSE st
    ELSE IF chunk.token = "MOTX"
    THEN LET t == read_cstring_table_with(chunk.data)
         IN  IF t.tag = "Err" THEN [st EXCEPT !.res = t]
             ELSE [st EXCEPT
                     !.textures = st.textures \o [i \in 1..Len(t.entries) |-> t.entries[i].string],
                     !.textures_index =
                         InsertAll(st.textures_index,
                                   [i \in 1..Len(t.entries) |->
                                       [id |-> t.entries[i].id,
                                        string |-> Len(st.textures) + i - 1]])]
    ELSE IF chunk.token = "MOMT"
    THEN st         \* every record is read and dropped: nothing is pushed
    ELSE IF chunk.token = "MOGN"
    THEN LET t == read_cstring_table_with(chunk.data)
         IN  IF t.tag = "Err" THEN [st EXCEPT !.res = t]
             ELSE [st EXCEPT !.group_names_table = InsertAll(st.group_names_table, t.entries)]
    ELSE IF chunk.token = "MOGI"
    THEN LET n == Len(chunk.data) \div MOGI_RECORD
         IN  IF n = 0 THEN st
             ELSE LET split == split_resource_name(name)
                  IN  IF split.tag = "Panic" THEN [st EXCEPT !.res = [tag |-> "Panic"]]
                      ELSE [st EXCEPT !.groups = st.groups \o
                              [i \in 1..n |->
                                  MeshGroupInfoAt(chunk.data, i - 1, split,
                                                  st.group_names_table)]]
    ELSE IF chunk.token = "MODN"
    THEN LET t == read_cstring_table_with(chunk.data)
         IN  IF t.tag = "Err" THEN [st EXCEPT !.res = t]
             ELSE [st EXCEPT !.m2_table = InsertAll(st.m2_table, t.entries)]
    ELSE st

\* for chunk in Chunked::new(input) { let chunk = chunk?; ... }: the items of
\* the chunk iterator are the input; an item of token "Err" is an Err item
RECURSIVE wmo_chunks(_, _, _)
wmo_chunks(name, chunks, st) ==
    IF st.res # None THEN st
    ELSE IF chunks = <<>> THEN st
    ELSE IF chunks[1].token = "Err" THEN [st EXCEPT !.res = Err("UnexpectedEof")]
    ELSE wmo_chunks(name, Tail(chunks), wmo_chunk(name, chunks[1], st))

\* wmo::load, after the resource is opened
wmo_load(name, chunks) ==
    LET st == wmo_chunks(name, chunks,
                         [res |-> None, textures |-> <<>>, m2 |-> <<>>, materials |-> <<>>,
                          groups |-> <<>>, textures_index |-> <<>>,
                          group_names_table |-> <<>>, m2_table |-> <<>>])
    IN  IF st.res # None THEN st.res
        ELSE [tag |-> "Ok", textures |-> st.textures, m2 |-> st.m2,
              materials |-> st.materials, groups |-> st.groups]

(***************************************************************************)
(* World-model inputs: a root name and the items of its chunk stream, at   *)
(* most MaxChunks of them, plus one stream whose group-info chunk has more *)
(* than 1000 records.                                                      *)
(***************************************************************************)
MaxChunks == 3
MaxGroups == 11
ManyGroups == 1001

\* "Stormwind.wmo", "d/a.wmo", "d\a.b.c", "a", ".b", and names with a
\* two-byte char before and after the separator
WmoNames == {<<83, 116, 111, 114, 109, 119, 105, 110, 100, 46, 119, 109, 111>>,
             <<100, 47, 97, 46, 119, 109, 111>>,
             <<100, 92, 97, 46, 98, 46, 99>>,
             <<97>>, <<46, 98>>,
             <<233, 47, 97, 46, 98>>, <<97, 47, 233, 46, 98>>}

MogiRecord(flags, name_offset) ==
    ToLE32(flags) \o Rep(0, 12) \o Rep(1, 12) \o ToLE32(name_offset)

\* n records, record i carrying the flags i % 256, then `extra` stray bytes
MogiData(n, name_offset, extra) ==
    [k \in 1..(MOGI_RECORD * n + extra) |->
        IF k > MOGI_RECORD * n THEN 9
        ELSE MogiRecord(((k - 1) \div MOGI_RECORD) % 256, name_offset)[((k - 1) % MOGI_RECORD) + 1]]

WmoChunks ==
    {[token |-> "MVER", data |-> d] : d \in {ToLE32(17), ToLE32(16), <<17, 0>>}}
    \cup {[token |-> "MOHD", data |-> Rep(0, n)] : n \in {MOHD_SIZE, 10}}
    \cup {[token |-> "MOGN", data |-> d] : d \in {<<97, 98, 0, 99, 0>>, <<0, 0, 255>>}}
    \cup {[token |-> "MOTX", data |-> <<97, 0, 0, 98>>]}
    \cup {[token |-> "MOMT", data |-> Rep(0, MOMT_RECORD)]}
    \cup {[token |-> "MOGI", data |-> MogiData(1, 0, 0)],
          [token |-> "MOGI", data |-> MogiData(4, 3, 0)],
          [token |-> "MOGI", data |-> MogiData(4, -1, 0)]}
    \cup {[token |-> "MOGI", data |-> MogiData(MaxGroups, 0, 5)]}
    \cup {[token |-> "XXXX", data |-> <<1>>], [token |-> "Err", data |-> <<>>]}

WmoChunkLists ==
    SeqsUpTo(WmoChunks, MaxChunks)
    \cup {<<[token |-> "MOGI", data |-> MogiData(ManyGroups, 1, 0)]>>}

InitWmo ==
    /\ pc = "init"
    /\ arg \in {[name |-> n, chunks |-> cs] : n \in WmoNames, cs \in WmoChunkLists}
    /\ reader = None
    /\ IdleAlpha
    /\ IdleChunk
    /\ IdleSplit
    /\ IdleTable
    /\ IdleGeom
    /\ IdleWmo
    /\ IdleBlp
    /\ IdleAdt
    /\ IdleLoads

DoWmoLoad ==
    /\ pc = "init"
    /\ map_object' = wmo_load(arg.name, arg.chunks)
    /\ pc' = "wmo_load"
    /\ UNCHANGED <<arg, reader, mesh_group, mesh_groups,
                   alphaVars, chunkVars, splitVars, tableVars, geomVars, blpVars, adtVars, loadVars>>

NextWmo == DoWmoLoad

SpecWmo == InitWmo /\ [][NextWmo]_vars


(***************************************************************************)
(* blp.rs: blp::load on the bytes of the opened resource                   *)
(***************************************************************************)
PALETTE_SIZE == 256
MIPMAP_SLOTS == 16
BLP_MAGIC == <<66, 76, 80, 50>>         \* "BLP2"
BLP_HEADER == 20                         \* magic .. height
BLP_TABLES == 2 * 4 * MIPMAP_SLOTS       \* the offset and the size table

\* bytes [pos, pos + n) of the resource (pos counts from 0)
BytesAt(buf, pos, n) == SubSeq(buf, pos + 1, pos + n)

\* if version != 1 { return Err(..) }
VersionSupported(version) == version = 1

\* mutant of TakeWhileNonZero: the whole table is taken
TakeWhileNonZero_All(table) == table

\* iter().take_while(|x| **x != 0)
RECURSIVE TakeWhileNonZero(_)
TakeWhileNonZero(table) ==
    IF table = <<>> \/ table[1] = 0 THEN <<>>
    ELSE <<table[1]>> \o TakeWhileNonZero(Tail(table))

\* offsets.take_while(..).zip(sizes.take_while(..)).collect()
mipmap_blocks(offsets, sizes) ==
    LET os == TakeWhileNonZero(offsets)
        ss == TakeWhileNonZero(sizes)
    IN  [k \in 1..Min(Len(os), Len(ss)) |-> [offset |-> os[k], size |-> ss[k]]]

\* the 16 u32 of one table, read from byte position pos
ReadTable(buf, pos) ==
    [k \in 1..MIPMAP_SLOTS |-> LE32(BytesAt(buf, pos + 4 * (k - 1), 4))]

\* mutant of ReadPalette: three bytes per entry
ReadPalette_Packed(buf, pos) ==
    [k \in 1..PALETTE_SIZE |->
        [b |-> buf[pos + 3 * (k - 1) + 1],
         g |-> buf[pos + 3 * (k - 1) + 2],
         r |-> buf[pos + 3 * (k - 1) + 3]]]

\* the palette loop: read_u8tuple4 per entry, the first three bytes kept
ReadPalette(buf, pos) ==
    [k \in 1..PALETTE_SIZE |->
        [b |-> buf[pos + 4 * (k - 1) + 1],
         g |-> buf[pos + 4 * (k - 1) + 2],
         r |-> buf[pos + 4 * (k - 1) + 3]]]

\* for bit in 0..8 { push(if byte & (1 << bit) != 0 { 0xFF } else { 0x00 }) }
ExpandBits(byte) ==
    [bit \in 1..8 |-> IF (byte \div (2 ^ (bit - 1))) % 2 = 1 THEN 255 ELSE 0]

\* ((height * width) as f32 / 8.0).ceil() as u32
CeilDiv8(n) == (n + 7) \div 8

\* one pass of the Indexed mipmap loop: block = input.take(size) at offset
IndexedMipmap(buf, block, alpha_depth, pixels) ==
    LET avail == Min(block.size, IF block.offset >= Len(buf) THEN 0 ELSE Len(buf) - block.offset)
    IN  IF avail < pixels THEN Err("UnexpectedEof")
        ELSE IF alpha_depth = 8
        THEN IF avail < 2 * pixels THEN Err("UnexpectedEof")
             ELSE [tag |-> "Ok", indexes |-> BytesAt(buf, block.offset, pixels),
                   alpha_values |-> [tag |-> "Some",
                                     bytes |-> BytesAt(buf, block.offset + pixels, pixels)]]
        ELSE IF alpha_depth = 1
        THEN IF avail < pixels + CeilDiv8(pixels) THEN Err("UnexpectedEof")
             ELSE [tag |-> "Ok", indexes |-> BytesAt(buf, block.offset, pixels),
                   alpha_values |->
                       [tag |-> "Some",
                        bytes |-> Flatten([j \in 1..CeilDiv8(pixels) |->
                                     ExpandBits(buf[block.offset + pixels + j])])]]
        ELSE [tag |-> "Ok", indexes |-> BytesAt(buf, block.offset, pixels),
              alpha_values |-> None]

\* mutant of CompressionOf: the preferred-format hint is not looked at
CompressionOf_NoHint(alpha_depth, preferred_format) ==
    IF alpha_depth = 8 THEN "DXT5"
    ELSE IF alpha_depth = 4 THEN "DXT3"
    ELSE "DXT1"

\* Compression of a Compressed image
CompressionOf(alpha_depth, preferred_format) ==
    IF alpha_depth = 8 /\ preferred_format = 7 THEN "DXT5"
    ELSE IF alpha_depth = 8 \/ alpha_depth = 4 THEN "DXT3"
    ELSE "DXT1"

\* one pass of the Compressed mipmap loop: seek, read_vec(size)
CompressedMipmap(buf, block) ==
    IF block.offset + block.size > Len(buf) THEN Err("UnexpectedEof")
    ELSE [tag |-> "Ok", blob |-> BytesAt(buf, block.offset, block.size)]

\* one pass of the TrueColor mipmap loop: seek, one read_u8tuple4 per pixel
TrueColorMipmap(buf, block, pixels) ==
    IF pixels > 0 /\ block.offset + 4 * pixels > Len(buf) THEN Err("UnexpectedEof")
    ELSE [tag |-> "Ok",
          pixels |-> [k \in 1..pixels |->
                         [b |-> buf[block.offset + 4 * (k - 1) + 1],
                          g |-> buf[block.offset + 4 * (k - 1) + 2],
                          r |-> buf[block.offset + 4 * (k - 1) + 3],
                          a |-> buf[block.offset + 4 * (k - 1) + 4]]]]

\* a mipmap loop: the first failing pass ends the call with its error
MipmapsOrErr(ms) ==
    IF \E k \in 1..Len(ms) : ms[k].tag = "Err"
    THEN ms[CHOOSE k \in 1..Len(ms) :
                ms[k].tag = "Err" /\ \A j \in 1..(k - 1) : ms[j].tag = "Ok"]
    ELSE [tag |-> "Ok", mipmaps |-> ms]

\* mutant of ImageData: an unknown encoding selector decodes as TrueColor
ImageData_AnyEncoding(buf, h) ==
    LET blocks == mipmap_blocks(h.offsets, h.sizes)
        ms == MipmapsOrErr([k \in 1..Len(blocks) |->
                  TrueColorMipmap(buf, blocks[k], h.height * h.width)])
    IN  IF ms.tag = "Err" THEN ms
        ELSE [tag |-> "Ok", kind |-> "TrueColor", mipmaps |-> ms.mipmaps]

\* let data = match encoding { 1 => .., 2 => .., 3 => .., _ => return Err(..) }
ImageData(buf, h) ==
    LET blocks == mipmap_blocks(h.offsets, h.sizes)
        pixels == h.height * h.width
        start == BLP_HEADER + BLP_TABLES
    IN  IF h.encoding = 1
        THEN IF Len(buf) < start + 4 * PALETTE_SIZE THEN Err("UnexpectedEof")
             ELSE LET ms == MipmapsOrErr([k \in 1..Len(blocks) |->
                                IndexedMipmap(buf, blocks[k], h.alpha_depth, pixels)])
                  IN  IF ms.tag = "Err" THEN ms
                      ELSE [tag |-> "Ok", kind |-> "Indexed",
                            palette |-> ReadPalette(buf, start),
                            full_alpha |-> h.alpha_depth > 1,
                            mipmaps |-> ms.mipmaps]
        ELSE IF h.encoding = 2
        THEN LET ms == MipmapsOrErr([k \in 1..Len(blocks) |-> CompressedMipmap(buf, blocks[k])])
             IN  IF ms.tag = "Err" THEN ms
                 ELSE [tag |-> "Ok", kind |-> "Compressed",
                       compression |-> CompressionOf(h.alpha_depth, h.preferred_format),
                       mipmaps |-> ms.mipmaps]
        ELSE IF h.encoding = 3
        THEN LET ms == MipmapsOrErr([k \in 1..Len(blocks) |->
                           TrueColorMipmap(buf, blocks[k], pixels)])
             IN  IF ms.tag = "Err" THEN ms
                 ELSE [tag |-> "Ok", kind |-> "TrueColor", mipmaps |-> ms.mipmaps]
        ELSE Err("InvalidData")

\* magic != [b'B', b'L', b'P', b'2'] is the failure
MagicOk(magic) == magic = BLP_MAGIC

\* blp::load, after the resource is opened
blp_load(buf) ==
    IF Len(buf) < 4 THEN Err("UnexpectedEof")
    ELSE IF ~MagicOk(BytesAt(buf, 0, 4)) THEN Err("InvalidData")
    ELSE IF Len(buf) < BLP_HEADER THEN Err("UnexpectedEof")
    ELSE IF ~VersionSupported(LE32(BytesAt(buf, 4, 4))) THEN Err("InvalidData")
    ELSE IF Len(buf) < BLP_HEADER + BLP_TABLES THEN Err("UnexpectedEof")
    ELSE LET h == [encoding |-> buf[9], alpha_depth |-> buf[10],
                   preferred_format |-> buf[11], has_mipmaps |-> buf[12],
                   width |-> LE32(BytesAt(buf, 12, 4)),
                   height |-> LE32(BytesAt(buf, 16, 4)),
                   offsets |-> ReadTable(buf, BLP_HEADER),
                   sizes |-> ReadTable(buf, BLP_HEADER + 4 * MIPMAP_SLOTS)]
             d == ImageData(buf, h)
         IN  IF d.tag = "Err" THEN d
             ELSE [tag |-> "Ok", height |-> h.height, width |-> h.width, data |-> d]


(***************************************************************************)
(* Image inputs.  A resource is a 20-byte header, the two 16-slot tables,  *)
(* a 1024-byte palette area and a data area, cut at `cut` bytes.  The      *)
(* offset table has `noff` leading entries that point into the data area   *)
(* (and, with `stray`, one more entry after a zero), the size table        *)
(* `nsize` leading nonzero entries.                                        *)
(***************************************************************************)
MaxLevels == 2
MaxSide == 4

BLP_DATA == BLP_HEADER + BLP_TABLES + 4 * PALETTE_SIZE
BlpDataLen == 2 * MIPMAP_SLOTS + 2 * MaxSide * MaxSide + 8
BlpFileLen == BLP_DATA + BlpDataLen

\* the byte at position p of the palette and data areas
BodyByte(p) == (p * 37 + 11) % 256

LevelCounts == (0..MaxLevels) \cup {MIPMAP_SLOTS}

OffsetTable(noff, stray) ==
    [k \in 1..MIPMAP_SLOTS |->
        IF k <= noff \/ (stray /\ k = noff + 2) THEN BLP_DATA + 2 * (k - 1) ELSE 0]

SizeTable(nsize, base) ==
    [k \in 1..MIPMAP_SLOTS |-> IF k <= nsize THEN base + k - 1 ELSE 0]

BlpFile(a) ==
    LET table(t) == Flatten([k \in 1..MIPMAP_SLOTS |-> ToLE32(t[k])])
        head == a.magic \o ToLE32(a.version)
                    \o <<a.encoding, a.alpha_depth, a.preferred_format, 1>>
                    \o ToLE32(a.width) \o ToLE32(a.height)
                    \o table(a.offsets) \o table(a.sizes)
    IN  [p \in 1..Min(a.cut, BlpFileLen) |->
            IF p <= Len(head) THEN head[p] ELSE BodyByte(p - 1)]

BlpDims == {<<1, 1>>, <<3, 1>>, <<MaxSide, 2>>}

\* resources with every magic / version / encoding combination
BlpHeaderInputs ==
    {[magic |-> m, version |-> v, encoding |-> e, alpha_depth |-> ad,
      preferred_format |-> 0, width |-> wh[1], height |-> wh[2],
      offsets |-> OffsetTable(n, FALSE), sizes |-> SizeTable(n, 40), cut |-> c] :
        m \in {BLP_MAGIC, <<66, 76, 80, 49>>}, v \in 0..2, e \in 0..4, ad \in {0, 1},
        wh \in {<<1, 1>>, <<MaxSide, 2>>}, n \in {0, MaxLevels},
        c \in {2, 10, 100, 500, BLP_DATA - 1, BLP_DATA + 1, BlpFileLen}}

\* well-headed resources with every payload combination
BlpPayloadInputs ==
    {[magic |-> BLP_MAGIC, version |-> 1, encoding |-> e, alpha_depth |-> ad,
      preferred_format |-> pf, width |-> wh[1], height |-> wh[2],
      offsets |-> OffsetTable(noff, stray), sizes |-> SizeTable(nsize, base), cut |-> c] :
        e \in 1..3, ad \in {0, 1, 4, 8}, pf \in {0, 7}, wh \in BlpDims,
        noff \in LevelCounts, nsize \in LevelCounts, stray \in BOOLEAN,
        base \in {1, 40}, c \in {BLP_DATA + 3, BlpFileLen}}

InitBlp ==
    /\ pc = "init"
    /\ arg \in BlpHeaderInputs \cup BlpPayloadInputs
    /\ reader = None
    /\ IdleAlpha
    /\ IdleChunk
    /\ IdleSplit
    /\ IdleTable
    /\ IdleGeom
    /\ IdleWmo
    /\ IdleBlp
    /\ IdleAdt
    /\ IdleLoads

DoBlpLoad ==
    /\ pc = "init"
    /\ image' = blp_load(BlpFile(arg))
    /\ pc' = "blp_load"
    /\ UNCHANGED <<arg, reader, alphaVars, chunkVars, splitVars, tableVars, geomVars, wmoVars, adtVars, loadVars>>

NextBlp == DoBlpLoad

SpecBlp == InitBlp /\ [][NextBlp]_vars

(***************************************************************************)
(* adt.rs: MapTile::load.  A float is kept as the 4 bytes it is read from, *)
(* a u64 as its 8 bytes.  The chunk iterator's items are the input: an     *)
(* item is [token, data], an MCNK item also carries `subs`, the items that *)
(* the iterator over its cursor yields after the bytes in `data`.          *)
(***************************************************************************)
MAP_CHUNK_COUNT == 16 * 16
MAP_CHUNK_VERTICES == 9 * 9 + 8 * 8
MCNK_HEADER == 128
MCLY_RECORD == 16
USE_HIGH_RES_HOLES == 65536         \* 1 << (7 + 7 + 2)
USE_ALPHA_MAP == 256                \* 1 << 8
ALPHA_MAP_COMPRESSED == 512         \* 1 << 9
LAYER_FLAG_BITS == 8192             \* TextureLayerFlags has bits 0..12
F32_ZERO == <<0, 0, 0, 0>>          \* 0.0

Panic(what) == [tag |-> "Panic", what |-> what]

\* bitflags contains()
Contains(flags, bit) == (flags \div bit) % 2 = 1

LE16(bs) == bs[1] + 256 * bs[2]

\* read_i8
I8(b) == IF b >= 128 THEN b - 256 ELSE b

\* the MapChunk that vec![..; MAP_CHUNK_COUNT] clones
DefaultMapChunk ==
    [index_x |-> 0, index_y |-> 0,
     position |-> <<F32_ZERO, F32_ZERO, F32_ZERO>>,
     heights |-> <<>>, normals |-> <<>>,
     holes |-> [kind |-> "LowRes", low |-> 0],
     texture_layers |-> <<>>]

\* the MapTile that MapTile::load starts from
NewMapTile ==
    [textures |-> <<>>, m2 |-> <<>>, wmo |-> <<>>,
     chunks |-> [k \in 1..MAP_CHUNK_COUNT |-> DefaultMapChunk]]

\* format!("{}{}_{}0.adt", name_dir, name_file, split_id)
SPLIT_IDS == << <<116, 101, 120>>, <<111, 98, 106>> >>      \* "tex", "obj"

SplitName(split, split_id) ==
    split.dir \o split.file \o <<95>> \o split_id \o <<48, 46, 97, 100, 116>>

\* ResourceReader::exists and ::open on the resources of the call
Exists(resources, name) == name \in DOMAIN resources

\* the targets vector: the root, then every split file that exists
Targets(resources, name, split) ==
    << [name |-> name, is_rootfile |-> TRUE] >>
        \o SelectSeq([i \in 1..Len(SPLIT_IDS) |->
                         [name |-> SplitName(split, SPLIT_IDS[i]), is_rootfile |-> FALSE]],
                     LAMBDA t : Exists(resources, t.name))

\* read_mcnk_header: the let_read! of the 128-byte header and the four fields
\* that are kept
read_mcnk_header(map_chunk, bytes) ==
    IF Len(bytes) < MCNK_HEADER THEN Err("UnexpectedEof")
    ELSE LET flags == LE32(BytesAt(bytes, 0, 4))
         IN  [tag |-> "Ok",
              chunk |-> [map_chunk EXCEPT
                  !.index_x = LE32(BytesAt(bytes, 4, 4)),
                  !.index_y = LE32(BytesAt(bytes, 8, 4)),
                  !.position = <<BytesAt(bytes, 104, 4), BytesAt(bytes, 108, 4),
                                 BytesAt(bytes, 112, 4)>>,
                  !.holes = IF Contains(flags, USE_HIGH_RES_HOLES)
                            THEN [kind |-> "HighRes", high |-> BytesAt(bytes, 20, 8)]
                            ELSE [kind |-> "LowRes", low |-> LE16(BytesAt(bytes, 60, 2))]]]

\* AlphaMap::read_compressed as one call
RECURSIVE read_compressed(_, _)
read_compressed(r, acc) ==
    IF Len(acc) >= ALPHAMAP_SIZE THEN read_compressed_end(acc)
    ELSE LET out == read_compressed_step(r, acc)
         IN  IF out.res # None THEN out.res ELSE read_compressed(out.rd, out.data)

\* a Cursor over bytes after seek(SeekFrom::Start(start)): past the end it
\* reads nothing
CursorAt(bytes, start) == [buf |-> bytes, pos |-> Min(start, Len(bytes))]

\* one pass of the MCAL loop on the layer it indexes: the layer with its
\* alpha map, or the error that ends the call
mcal_layer(layer, start, bytes, big_alpha) ==
    LET assign(res) ==
            IF res.tag = "Err" THEN res
            ELSE [tag |-> "Ok",
                  layer |-> [layer EXCEPT !.alpha_map =
                                IF res = None THEN None
                                ELSE [tag |-> "Some", is_u4 |-> res.is_u4, data |-> res.data]]]
    IN  IF ~Contains(layer.flags, USE_ALPHA_MAP) THEN [tag |-> "Ok", layer |-> layer]
        ELSE IF Contains(layer.flags, ALPHA_MAP_COMPRESSED)
        THEN assign(read_compressed(CursorAt(bytes, start), <<>>))
        ELSE IF big_alpha.tag = "Some"
        THEN assign(read_raw(CursorAt(bytes, start), ~big_alpha.is_u8).res)
        ELSE assign(None)

\* the MCAL arm: for (index, start) in mcal_offsets.iter().enumerate(); a pass
\* touches only layer `index`, and the first failing pass ends the call
mcal_loop(layers, mcal_offsets, bytes, big_alpha) ==
    LET collect(passes) ==
            IF \E i \in 1..Len(passes) : passes[i].tag = "Err"
            THEN passes[CHOOSE i \in 1..Len(passes) :
                            passes[i].tag = "Err" /\ \A j \in 1..(i - 1) : passes[j].tag = "Ok"]
            ELSE [tag |-> "Ok",
                  layers |-> [i \in 1..Len(layers) |->
                                 IF i <= Len(passes) THEN passes[i].layer ELSE layers[i]]]
    IN  collect([i \in 1..Len(mcal_offsets) |->
                    mcal_layer(layers[i], mcal_offsets[i], bytes, big_alpha)])

\* one record of the MCLY arm: the TextureLayer pushed and its mcal_offset
LayerAt(bytes, index) ==
    LET rec == BytesAt(bytes, MCLY_RECORD * index, MCLY_RECORD)
    IN  [layer |-> [texture_id |-> LE32(BytesAt(rec, 0, 4)),
                    flags |-> LE32(BytesAt(rec, 4, 4)) % LAYER_FLAG_BITS,
                    ground_effect_id |-> LE32(BytesAt(rec, 12, 4)),
                    alpha_map |-> None],
         mcal_offset |-> LE32(BytesAt(rec, 8, 4))]

\* one pass of the loop of read_mcnk_subchunks: the match on the token
mcnk_subchunk(subchunk, st, big_alpha) ==
    IF subchunk.token = "MCVT"
    THEN IF Len(subchunk.data) < 4 * MAP_CHUNK_VERTICES
         THEN [st EXCEPT !.res = Err("UnexpectedEof")]
         ELSE [st EXCEPT !.chunk.heights = @ \o
                  [k \in 1..MAP_CHUNK_VERTICES |-> BytesAt(subchunk.data, 4 * (k - 1), 4)]]
    ELSE IF subchunk.token = "MCNR"
    THEN IF Len(subchunk.data) < 3 * MAP_CHUNK_VERTICES
         THEN [st EXCEPT !.res = Err("UnexpectedEof")]
         ELSE [st EXCEPT !.chunk.normals = @ \o
                  [k \in 1..MAP_CHUNK_VERTICES |->
                      \* the direction that is divided by 127 and normalised
                      [x |-> 0 - I8(subchunk.data[3 * k - 2]),
                       y |-> 0 - I8(subchunk.data[3 * k - 1]),
                       z |-> I8(subchunk.data[3 * k])]]]
    ELSE IF subchunk.token = "MCLY"
    THEN LET n == Len(subchunk.data) \div MCLY_RECORD
         IN  [st EXCEPT
                !.chunk.texture_layers = @ \o [k \in 1..n |-> LayerAt(subchunk.data, k - 1).layer],
                !.mcal_offsets = @ \o [k \in 1..n |-> LayerAt(subchunk.data, k - 1).mcal_offset]]
    ELSE IF subchunk.token = "MCAL"
    THEN LET store(out) == IF out.tag = "Err" THEN [st EXCEPT !.res = out]
                           ELSE [st EXCEPT !.chunk.texture_layers = out.layers]
         IN  store(mcal_loop(st.chunk.texture_layers, st.mcal_offsets,
                             subchunk.data, big_alpha))
    ELSE st

\* for subchunk in Chunked::new(cursor) { let subchunk = subchunk?; .. }
RECURSIVE mcnk_subchunks(_, _, _)
mcnk_subchunks(subs, st, big_alpha) ==
    IF st.res # None THEN st
    ELSE IF subs = <<>> THEN st
    ELSE IF subs[1].token = "Err" THEN [st EXCEPT !.res = Err("UnexpectedEof")]
    ELSE mcnk_subchunks(Tail(subs), mcnk_subchunk(subs[1], st, big_alpha), big_alpha)

\* read_mcnk_subchunks
read_mcnk_subchunks(map_chunk, subs, big_alpha) ==
    LET result(st) == IF st.res # None THEN st.res ELSE [tag |-> "Ok", chunk |-> st.chunk]
    IN  result(mcnk_subchunks(subs, [chunk |-> map_chunk, mcal_offsets |-> <<>>, res |-> None],
                              big_alpha))

\* the loop of read_ids_chunk: data.remove(&offset), into.push(name)
RECURSIVE ids_loop(_, _, _, _)
ids_loop(bytes, k, table, into) ==
    IF k >= Len(bytes) \div 4 THEN into
    ELSE LET offset == LE32(BytesAt(bytes, 4 * k, 4))
         IN  IF offset \in DOMAIN table
             THEN ids_loop(bytes, k + 1, [o \in DOMAIN table \ {offset} |-> table[o]],
                           Append(into, table[offset]))
             ELSE ids_loop(bytes, k + 1, table, into)

\* mutant of read_ids_chunk: the offset map is left as it was
read_ids_chunk_NoClear(bytes, table, into) ==
    [into |-> ids_loop(bytes, 0, table, into), data |-> table]

\* read_ids_chunk: the names pushed onto `into`; data.clear() empties the table
read_ids_chunk(bytes, table, into) == [into |-> ids_loop(bytes, 0, table, into), data |-> <<>>]

\* mutant of read_adt_chunk: map_chunk_index is not advanced after a record
read_adt_chunk_NoAdvance(chunk, st, is_rootfile, big_alpha) ==
    IF chunk.token # "MCNK" THEN st
    ELSE LET store(out) == IF out.tag = "Err" THEN [st EXCEPT !.res = out]
                           ELSE [st EXCEPT !.tile.chunks[st.map_chunk_index + 1] = out.chunk]
             subchunks(head) ==
                 IF head.tag = "Err" THEN head
                 ELSE read_mcnk_subchunks(head.chunk, chunk.subs, big_alpha)
         IN  store(subchunks(IF is_rootfile
                             THEN read_mcnk_header(st.tile.chunks[st.map_chunk_index + 1],
                                                   chunk.data)
                             ELSE [tag |-> "Ok",
                                   chunk |-> st.tile.chunks[st.map_chunk_index + 1]]))

\* one pass of the loop of read_adt_file: the match on the token
read_adt_chunk(chunk, st, is_rootfile, big_alpha) ==
    IF chunk.token = "MTEX"
    THEN LET t == read_cstring_table_with(chunk.data)
         IN  IF t.tag = "Err" THEN [st EXCEPT !.res = t]
             ELSE [st EXCEPT !.tile.textures =
                      @ \o [i \in 1..Len(t.entries) |-> t.entries[i].string]]
    ELSE IF chunk.token = "MMDX"
    THEN LET t == read_cstring_table_with(chunk.data)
         IN  IF t.tag = "Err" THEN [st EXCEPT !.res = t]
             ELSE [st EXCEPT !.m2_tmp = InsertAll(@, t.entries)]
    ELSE IF chunk.token = "MMID"
    THEN LET out == read_ids_chunk(chunk.data, st.m2_tmp, st.tile.m2)
         IN  [st EXCEPT !.tile.m2 = out.into, !.m2_tmp = out.data]
    ELSE IF chunk.token = "MWMO"
    THEN LET t == read_cstring_table_with(chunk.data)
         IN  IF t.tag = "Err" THEN [st EXCEPT !.res = t]
             ELSE [st EXCEPT !.wmo_tmp = InsertAll(@, t.entries)]
    ELSE IF chunk.token = "MWID"
    THEN LET out == read_ids_chunk(chunk.data, st.wmo_tmp, st.tile.wmo)
         IN  [st EXCEPT !.tile.wmo = out.into, !.wmo_tmp = out.data]
    ELSE IF chunk.token = "MCNK"
    THEN IF st.map_chunk_index >= Len(st.tile.chunks)
         THEN [st EXCEPT !.res = Panic("map_tile.chunks[map_chunk_index]")]
         ELSE LET slot == st.map_chunk_index + 1
                  store(out) == IF out.tag = "Err" THEN [st EXCEPT !.res = out]
                                ELSE [st EXCEPT !.tile.chunks[slot] = out.chunk,
                                                !.map_chunk_index = @ + 1]
                  subchunks(head) ==
                      IF head.tag = "Err" THEN head
                      ELSE read_mcnk_subchunks(head.chunk, chunk.subs, big_alpha)
              IN  store(subchunks(IF is_rootfile
                                  THEN read_mcnk_header(st.tile.chunks[slot], chunk.data)
                                  ELSE [tag |-> "Ok", chunk |-> st.tile.chunks[slot]]))
    ELSE st             \* MDDF and MODF records are read and dropped

(***************************************************************************)
(* Tile inputs.  A resource is `head`, a list of chunk items, followed by  *)
(* `count` MCNK items of one kind; the k-th of them (from 0) is            *)
(* McnkItem(kind, k).  A root MCNK item starts with the 128-byte header, a *)
(* split-file MCNK item has none.                                          *)
(***************************************************************************)
MaxOverflow == 1        \* MCNK records beyond MAP_CHUNK_COUNT in one file
MaxSubchunks == 2       \* sub-chunks of one MCNK record
MaxHeadChunks == 2      \* chunks in front of the MCNK records

Missing == [tag |-> "Missing"]

AdtFile(head, mcnk, count) == [tag |-> "File", head |-> head, mcnk |-> mcnk, count |-> count]

McnkHeaderBytes(k, high_res) ==
    ToLE32(IF high_res THEN USE_HIGH_RES_HOLES + 2 ELSE 2)
        \o ToLE32(k % 16) \o ToLE32(k \div 16) \o Rep(0, 8)
        \o <<1, 2, 3, 4, 5, 6, 7, 8>> \o Rep(0, 32) \o <<9, 1>> \o Rep(0, 42)
        \o <<0, 0, 128, 63, 0, 0, 0, 64, 0, 0, 64, 64>> \o Rep(0, 12)

McnkItem(kind, k) ==
    [token |-> "MCNK",
     data |-> IF kind.header = "root" THEN McnkHeaderBytes(k, kind.high_res)
              ELSE IF kind.header = "short" THEN <<1, 2, 3>>
              ELSE <<>>,
     subs |-> kind.subs]

ItemCount(file) == Len(file.head) + file.count

ItemAt(file, i) ==
    IF i <= Len(file.head) THEN file.head[i]
    ELSE McnkItem(file.mcnk, i - Len(file.head) - 1)

LayerRecord(texture_id, flags, mcal_offset) ==
    ToLE32(texture_id) \o ToLE32(flags) \o ToLE32(mcal_offset) \o ToLE32(3)

SubItems ==
    {[token |-> "MCVT", data |-> [i \in 1..(4 * MAP_CHUNK_VERTICES) |-> (i * 7) % 256]],
     [token |-> "MCVT", data |-> <<0, 0, 128, 63, 0, 0>>],
     [token |-> "MCNR", data |-> [i \in 1..(3 * MAP_CHUNK_VERTICES) |-> (i * 11) % 256]],
     [token |-> "MCLY", data |-> LayerRecord(1, 0, 0)],
     [token |-> "MCLY", data |-> LayerRecord(1, 0, 0)
                                    \o LayerRecord(2, USE_ALPHA_MAP + ALPHA_MAP_COMPRESSED, 0)],
     [token |-> "MCLY", data |-> LayerRecord(4, LAYER_FLAG_BITS + USE_ALPHA_MAP, 2)],
     [token |-> "MCLY", data |-> LayerRecord(5, USE_ALPHA_MAP + ALPHA_MAP_COMPRESSED, 100)],
     [token |-> "MCLY", data |-> Flatten([k \in 1..5 |-> LayerRecord(k, 0, 0)])],
     [token |-> "MCAL", data |-> <<194, 7>> \o Rep(5, 70)],
     [token |-> "MCSH", data |-> <<1>>],
     [token |-> "Err", data |-> <<>>]}

SubLists == SeqsUpTo(SubItems, MaxSubchunks)

HeadItems ==
    {[token |-> "MTEX", data |-> <<97, 98, 0, 99, 0>>],
     [token |-> "MTEX", data |-> <<255, 0>>],
     [token |-> "MMDX", data |-> <<109, 49, 0, 109, 50, 0>>],
     [token |-> "MMID", data |-> ToLE32(3) \o ToLE32(0)],
     [token |-> "MMID", data |-> ToLE32(9) \o ToLE32(0) \o ToLE32(0)],
     [token |-> "MWMO", data |-> <<119, 0>>],
     [token |-> "MWID", data |-> ToLE32(0)],
     [token |-> "MDDF", data |-> Rep(0, 36)],
     [token |-> "MODF", data |-> Rep(0, 64)],
     [token |-> "MFBO", data |-> <<1, 2>>],
     [token |-> "Err", data |-> <<>>]}

HeadLists == SeqsUpTo(HeadItems, MaxHeadChunks)

\* tile names with the names of their two companion resources:
\* "a.adt", "d/b.adt", "a.xyz" and "a/<e-acute>.b"
AdtNames ==
    {[name |-> <<97, 46, 97, 100, 116>>,
      tex |-> <<97, 95, 116, 101, 120, 48, 46, 97, 100, 116>>,
      obj |-> <<97, 95, 111, 98, 106, 48, 46, 97, 100, 116>>],
     [name |-> <<100, 47, 98, 46, 97, 100, 116>>,
      tex |-> <<100, 47, 98, 95, 116, 101, 120, 48, 46, 97, 100, 116>>,
      obj |-> <<100, 47, 98, 95, 111, 98, 106, 48, 46, 97, 100, 116>>],
     [name |-> <<97, 46, 120, 121, 122>>,
      tex |-> <<97, 95, 116, 101, 120, 48, 46, 120, 121, 122>>,
      obj |-> <<97, 95, 111, 98, 106, 48, 46, 120, 121, 122>>],
     [name |-> <<97, 47, 233, 46, 98>>,
      tex |-> <<97, 47, 233, 95, 116, 101, 120, 48, 46, 98>>,
      obj |-> <<97, 47, 233, 95, 111, 98, 106, 48, 46, 98>>]}

PlainAdt == CHOOSE n \in AdtNames : n.name = <<97, 46, 97, 100, 116>>

\* the resources of a call: the files that are not Missing, under their names
Resources(n, root, tex, obj) ==
    LET all == {<<n.name, root>>, <<n.tex, tex>>, <<n.obj, obj>>}
        present == {p \in all : p[2].tag = "File"}
    IN  [k \in {p[1] : p \in present} |-> (CHOOSE p \in present : p[1] = k)[2]]

McnkCounts == {0, 1} \cup ((MAP_CHUNK_COUNT - 1)..(MAP_CHUNK_COUNT + MaxOverflow))

BigAlphas == {None, [tag |-> "Some", is_u8 |-> TRUE], [tag |-> "Some", is_u8 |-> FALSE]}

RootKind(high_res, subs) == [header |-> "root", high_res |-> high_res, subs |-> subs]
SplitKind(subs) == [header |-> "none", high_res |-> FALSE, subs |-> subs]
LayerSub == CHOOSE s \in SubItems : s.token = "MCLY" /\ s.data = LayerRecord(1, 0, 0)
CompressedLayerSub ==
    CHOOSE s \in SubItems : s.token = "MCLY" /\ Len(s.data) = 2 * MCLY_RECORD
McalSub == CHOOSE s \in SubItems : s.token = "MCAL"
McvtSub == CHOOSE s \in SubItems : s.token = "MCVT" /\ Len(s.data) = 4 * MAP_CHUNK_VERTICES
McnrSub == CHOOSE s \in SubItems : s.token = "MCNR"

\* calls that differ in the number of MCNK records of the root and tex files
CountInputs ==
    {[name |-> PlainAdt.name, big_alpha |-> None, exists_err |-> FALSE,
      resources |-> Resources(PlainAdt, AdtFile(<<>>, kind, n), tex, Missing)] :
        kind \in {RootKind(FALSE, <<>>), RootKind(TRUE, <<LayerSub>>)},
        n \in McnkCounts,
        tex \in {Missing} \cup {AdtFile(<<>>, SplitKind(<<LayerSub>>), m) : m \in McnkCounts}}

\* calls that differ in the sub-chunks of one MCNK record
SubchunkInputs ==
    {[name |-> PlainAdt.name, big_alpha |-> ba, exists_err |-> FALSE,
      resources |-> Resources(PlainAdt, root, tex, Missing)] :
        ba \in BigAlphas,
        root \in {AdtFile(<<>>, RootKind(FALSE, subs), 1) : subs \in SubLists}
                    \cup {AdtFile(<<>>, [header |-> "short", high_res |-> FALSE, subs |-> <<>>], 1)},
        tex \in {Missing,
                 AdtFile(<<>>, SplitKind(<<CompressedLayerSub, McalSub>>), 1),
                 AdtFile(<<>>, SplitKind(<<McvtSub, McnrSub>>), 1)}}

\* calls that differ in the name, the resources present and the leading chunks
HeadInputs ==
    {[name |-> n.name, big_alpha |-> None, exists_err |-> ee,
      resources |-> Resources(n, root, Missing, obj)] :
        n \in AdtNames, ee \in BOOLEAN,
        root \in {Missing} \cup {AdtFile(h, RootKind(FALSE, <<>>), 1) : h \in HeadLists},
        obj \in {Missing,
                 AdtFile(<< [token |-> "MMDX", data |-> <<109, 49, 0, 109, 50, 0>>],
                            [token |-> "MMID", data |-> ToLE32(3)] >>,
                         SplitKind(<<>>), 0)}}

InitAdt ==
    /\ pc = "init"
    /\ arg \in CountInputs \cup SubchunkInputs \cup HeadInputs
    /\ reader = None
    /\ IdleAlpha
    /\ IdleChunk
    /\ IdleSplit
    /\ IdleTable
    /\ IdleGeom
    /\ IdleWmo
    /\ IdleBlp
    /\ IdleAdt
    /\ IdleLoads

\* how a call that fails or panics ends: the tile is dropped
LoadEnds(how) ==
    /\ loaded' = how
    /\ map_tile' = None
    /\ pc' = "load"

\* MapTile::load up to the loop over the targets
DoLoadTargets ==
    /\ pc = "init"
    /\ LET split == split_resource_name(arg.name)
       IN  IF split.tag = "Panic"
           THEN LoadEnds(Panic("split_resource_name")) /\ UNCHANGED adt_file
           ELSE IF arg.exists_err
           THEN LoadEnds(Err("Other")) /\ UNCHANGED adt_file
           ELSE /\ map_tile' = NewMapTile
                /\ adt_file' = [targets |-> Targets(arg.resources, arg.name, split),
                                target |-> 0, at |-> 0, map_chunk_index |-> 0,
                                m2_tmp |-> <<>>, wmo_tmp |-> <<>>]
                /\ pc' = "targets"
                /\ UNCHANGED loaded
    /\ UNCHANGED <<arg, reader, alphaVars, chunkVars, splitVars, tableVars, geomVars, wmoVars, blpVars, loadVars>>

\* reader.open(&split_name)? and the locals of read_adt_file
DoOpenTarget ==
    /\ pc = "targets"
    /\ adt_file.target < Len(adt_file.targets)
    /\ IF Exists(arg.resources, adt_file.targets[adt_file.target + 1].name)
       THEN /\ adt_file' = [adt_file EXCEPT !.target = @ + 1, !.at = 0,
                                            !.map_chunk_index = 0,
                                            !.m2_tmp = <<>>, !.wmo_tmp = <<>>]
            /\ pc' = "read_adt_file"
            /\ UNCHANGED <<map_tile, loaded, loadVars>>
       ELSE LoadEnds(Err("NotFound")) /\ UNCHANGED adt_file
    /\ UNCHANGED <<arg, reader, alphaVars, chunkVars, splitVars, tableVars, geomVars, wmoVars, blpVars, loadVars>>

\* one pass of the chunk loop of read_adt_file
DoReadAdtChunk ==
    /\ pc = "read_adt_file"
    /\ LET target == adt_file.targets[adt_file.target]
           file == arg.resources[target.name]
       IN  /\ adt_file.at < ItemCount(file)
           /\ LET chunk == ItemAt(file, adt_file.at + 1)
                  after(st) ==
                      IF st.res # None
                      THEN LoadEnds(st.res) /\ UNCHANGED adt_file
                      ELSE /\ map_tile' = st.tile
                           /\ adt_file' = [adt_file EXCEPT !.at = @ + 1,
                                              !.map_chunk_index = st.map_chunk_index,
                                              !.m2_tmp = st.m2_tmp, !.wmo_tmp = st.wmo_tmp]
                           /\ UNCHANGED <<pc, loaded, loadVars>>
              IN  IF chunk.token = "Err"
                  THEN LoadEnds(Err("UnexpectedEof")) /\ UNCHANGED adt_file
                  ELSE after(read_adt_chunk(chunk,
                                            [tile |-> map_tile, res |-> None,
                                             map_chunk_index |-> adt_file.map_chunk_index,
                                             m2_tmp |-> adt_file.m2_tmp,
                                             wmo_tmp |-> adt_file.wmo_tmp],
                                            target.is_rootfile, arg.big_alpha))
    /\ UNCHANGED <<arg, reader, alphaVars, chunkVars, splitVars, tableVars, geomVars, wmoVars, blpVars, loadVars>>

\* the chunk iterator is exhausted: read_adt_file returns Ok(())
DoAdtFileEnd ==
    /\ pc = "read_adt_file"
    /\ adt_file.at = ItemCount(arg.resources[adt_file.targets[adt_file.target].name])
    /\ pc' = "targets"
    /\ UNCHANGED <<arg, reader, alphaVars, chunkVars, splitVars, tableVars, geomVars, wmoVars, blpVars, adtVars, loadVars>>

\* every target is read: Ok(map_tile)
DoLoadReturn ==
    /\ pc = "targets"
    /\ adt_file.target = Len(adt_file.targets)
    /\ loaded' = [tag |-> "Ok"]
    /\ pc' = "load"
    /\ UNCHANGED <<arg, reader, alphaVars, chunkVars, splitVars, tableVars, geomVars, wmoVars, blpVars,
                   map_tile, adt_file, loadVars>>

NextAdt == DoLoadTargets \/ DoOpenTarget \/ DoReadAdtChunk \/ DoAdtFileEnd \/ DoLoadReturn

SpecAdt == InitAdt /\ [][NextAdt]_vars

(***************************************************************************)
(* wmo.rs: the group files of a world model: read_group_file,              *)
(* MeshGroupInfo::load and MapObject::load_all_groups.  The items of the   *)
(* chunk iterators are the input: a top-level MOGP item carries the bytes  *)
(* its let_read! consumes (data) and the items of the nested iterator      *)
(* (subs); an item of token "Err" is an Err item.                          *)
(***************************************************************************)
MOGP_HEADER == 68
MOVI_RECORD == 2
MOBA_RECORD == 24

\* MeshGroup { indexes: Vec::new().into(), .. }
NewMeshGroup ==
    [res |-> None, indexes |-> <<>>, vertices |-> <<>>, normals |-> <<>>,
     texcoords |-> <<>>, batches |-> <<>>]

\* read_f32tuple3 / read_f32tuple2: `count` floats kept as their 4 bytes
F32Tuple(bytes, pos, count) == [c \in 1..count |-> BytesAt(bytes, pos + 4 * (c - 1), 4)]

\* one pass of the MOBA loop
RenderBatchAt(bytes, index) ==
    LET rec == BytesAt(bytes, MOBA_RECORD * index, MOBA_RECORD)
    IN  [material_id |-> rec[24],
         index_start |-> LE32(BytesAt(rec, 12, 4)),
         index_count |-> LE16(BytesAt(rec, 16, 2)),
         vertex_start |-> LE16(BytesAt(rec, 18, 2)),
         vertex_end |-> LE16(BytesAt(rec, 20, 2))]

\* the match of the nested loop of read_group_file
mogp_subchunk(chunk, mesh) ==
    IF chunk.token = "MOVI"
    THEN [mesh EXCEPT !.indexes = @ \o
            [k \in 1..(Len(chunk.data) \div MOVI_RECORD) |->
                LE16(BytesAt(chunk.data, MOVI_RECORD * (k - 1), MOVI_RECORD))]]
    ELSE IF chunk.token = "MOVT"
    THEN [mesh EXCEPT !.vertices = @ \o
            [k \in 1..(Len(chunk.data) \div (3 * 4)) |->
                F32Tuple(chunk.data, 3 * 4 * (k - 1), 3)]]
    ELSE IF chunk.token = "MONR"
    THEN [mesh EXCEPT !.normals = @ \o
            [k \in 1..(Len(chunk.data) \div (3 * 4)) |->
                F32Tuple(chunk.data, 3 * 4 * (k - 1), 3)]]
    ELSE IF chunk.token = "MOTV"
    THEN [mesh EXCEPT !.texcoords = @ \o
            [k \in 1..(Len(chunk.data) \div (2 * 4)) |->
                F32Tuple(chunk.data, 2 * 4 * (k - 1), 2)]]
    ELSE IF chunk.token = "MOBA"
    THEN [mesh EXCEPT !.batches = @ \o
            [k \in 1..(Len(chunk.data) \div MOBA_RECORD) |-> RenderBatchAt(chunk.data, k - 1)]]
    ELSE mesh

\* for chunk in Chunked::new(root_cursor) { let chunk = chunk?; ... }
RECURSIVE mogp_subchunks(_, _)
mogp_subchunks(subs, mesh) ==
    IF mesh.res # None \/ subs = <<>> THEN mesh
    ELSE IF subs[1].token = "Err" THEN [mesh EXCEPT !.res = Err("UnexpectedEof")]
    ELSE mogp_subchunks(Tail(subs), mogp_subchunk(subs[1], mesh))

\* the match of the top-level loop of read_group_file
group_chunk(root_chunk, mesh) ==
    IF root_chunk.token = "MVER"
    THEN IF Len(root_chunk.data) < 4 THEN [mesh EXCEPT !.res = Err("UnexpectedEof")]
         ELSE IF LE32(BytesAt(root_chunk.data, 0, 4)) # WMO_VERSION
         THEN [mesh EXCEPT !.res = Err("InvalidData")]
         ELSE mesh
    ELSE IF root_chunk.token = "MOGP"
    THEN IF Len(root_chunk.data) < MOGP_HEADER
         THEN [mesh EXCEPT !.res = Err("UnexpectedEof")]
         ELSE mogp_subchunks(root_chunk.subs, mesh)
    ELSE mesh

\* for chunk in Chunked::new(input) { let root_chunk = chunk?; ... }
RECURSIVE group_chunks(_, _)
group_chunks(items, mesh) ==
    IF mesh.res # None \/ items = <<>> THEN mesh
    ELSE IF items[1].token = "Err" THEN [mesh EXCEPT !.res = Err("UnexpectedEof")]
    ELSE group_chunks(Tail(items), group_chunk(items[1], mesh))

read_group_file(items) ==
    LET result(mesh) ==
            IF mesh.res # None THEN mesh.res
            ELSE [tag |-> "Ok", indexes |-> mesh.indexes, vertices |-> mesh.vertices,
                  normals |-> mesh.normals, texcoords |-> mesh.texcoords,
                  batches |-> mesh.batches]
    IN  result(group_chunks(items, NewMeshGroup))

\* MeshGroupInfo::load: reader.open(&self.resource_key)? then read_group_file
MeshGroupInfo_load(group, resources) ==
    IF group.resource_key \notin DOMAIN resources THEN Err("NotFound")
    ELSE read_group_file(resources[group.resource_key])

\* mutant of load_all_groups: the first failure ends the collection
load_all_groups_StopAtFailure(groups, resources) ==
    LET results == [g \in 1..Len(groups) |-> MeshGroupInfo_load(groups[g], resources)]
        failed == {g \in 1..Len(groups) : results[g].tag # "Ok"}
    IN  IF failed = {} THEN results
        ELSE SubSeq(results, 1, (CHOOSE g \in failed : \A h \in failed : g <= h) - 1)

\* MapObject::load_all_groups: flat_map keeps the Ok results, in order
load_all_groups(groups, resources) ==
    LET results == [g \in 1..Len(groups) |-> MeshGroupInfo_load(groups[g], resources)]
        ok(result) == result.tag = "Ok"
    IN  SelectSeq(results, ok)

(***************************************************************************)
(* Group-file inputs: a root whose group-info chunk has up to              *)
(* MaxGroupFiles records, and for each group key either no resource or one *)
(* of a few group files (well-formed, wrong version, truncated).           *)
(***************************************************************************)
MaxGroupFiles == 3

\* "d/a.wmo" and "a/<e-acute>.b"
GroupRootName == <<100, 47, 97, 46, 119, 109, 111>>
AccentedRootName == <<97, 47, 233, 46, 98>>

\* "d/a_00<i>.wmo"
GroupKey(i) == <<100, 47, 97, 95, 48, 48, 48 + i>> \o GROUP_EXT

Mver(version) == [token |-> "MVER", data |-> ToLE32(version), subs |-> <<>>]
Mogp(header_len, subs) == [token |-> "MOGP", data |-> Rep(0, header_len), subs |-> subs]
Sub(token, bytes) == [token |-> token, data |-> bytes]

MoviSub == Sub("MOVI", <<1, 0, 2, 1, 9>>)
MovtSub == Sub("MOVT", [k \in 1..(3 * 4) |-> k])

GroupFiles ==
    { << Mver(WMO_VERSION), Mogp(MOGP_HEADER, <<MoviSub, MovtSub>>) >>,
      << Mver(WMO_VERSION),
         Mogp(MOGP_HEADER, << Sub("MONR", [k \in 1..(3 * 4) |-> 2 * k]),
                              Sub("MOTV", [k \in 1..(2 * 4) |-> 3 * k]),
                              Sub("MOBA", [k \in 1..MOBA_RECORD |-> 4 * k]) >>),
         Mogp(MOGP_HEADER, <<MoviSub>>) >>,
      << Mver(WMO_VERSION - 1), Mogp(MOGP_HEADER, <<MoviSub>>) >>,
      << Mogp(MOGP_HEADER, <<MoviSub>>), Mver(WMO_VERSION + 1) >>,
      << Mver(WMO_VERSION), Mogp(MOGP_HEADER - 1, <<MoviSub>>) >>,
      << Mver(WMO_VERSION), Mogp(MOGP_HEADER, <<MoviSub, Sub("Err", <<>>)>>) >>,
      << Mver(WMO_VERSION), [token |-> "Err", data |-> <<>>, subs |-> <<>>] >>,
      << [token |-> "MVER", data |-> <<17, 0>>, subs |-> <<>>] >>,
      << [token |-> "XXXX", data |-> <<1>>, subs |-> <<>>] >>,
      << Mver(WMO_VERSION), Mogp(MOGP_HEADER, <<Sub("MVER", ToLE32(WMO_VERSION - 1)), MovtSub>>) >> }

\* every assignment of a group file to some of the first n group keys
GroupResources(n) ==
    UNION {[{GroupKey(i) : i \in present} -> GroupFiles] : present \in SUBSET (0..(n - 1))}

GroupRoot(n) ==
    << [token |-> "MVER", data |-> ToLE32(WMO_VERSION)],
       [token |-> "MOGI", data |-> MogiData(n, 0, 0)] >>

\* roots whose version chunk is wrong, before and after a group-info chunk
BadVersionRoots ==
    { << [token |-> "MVER", data |-> ToLE32(WMO_VERSION + 1)] >>,
      << [token |-> "MOGI", data |-> MogiData(1, 0, 0)],
         [token |-> "MVER", data |-> ToLE32(WMO_VERSION + 1)] >> }

GroupInputs ==
    {[name |-> GroupRootName, chunks |-> GroupRoot(n), resources |-> r, group |-> 0] :
        n \in {MaxGroupFiles}, r \in GroupResources(MaxGroupFiles)}
    \cup {[name |-> GroupRootName, chunks |-> GroupRoot(n), resources |-> <<>>, group |-> 0] :
            n \in 0..MaxGroupFiles}
    \cup {[name |-> nm, chunks |-> cs, resources |-> <<>>, group |-> 0] :
            nm \in {GroupRootName, AccentedRootName}, cs \in BadVersionRoots}

InitGroup ==
    /\ pc = "init"
    /\ arg \in GroupInputs
    /\ reader = None
    /\ IdleAlpha
    /\ IdleChunk
    /\ IdleSplit
    /\ IdleTable
    /\ IdleGeom
    /\ IdleWmo
    /\ IdleBlp
    /\ IdleAdt
    /\ IdleLoads

\* group.load(reader) on one of the groups of the loaded root
DoGroupLoad ==
    /\ pc = "wmo_load"
    /\ map_object.tag = "Ok"
    /\ \E g \in 1..Len(map_object.groups) :
          /\ arg' = [arg EXCEPT !.group = g]
          /\ mesh_group' = MeshGroupInfo_load(map_object.groups[g], arg.resources)
    /\ pc' = "MeshGroupInfo_load"
    /\ UNCHANGED <<reader, map_object, mesh_groups,
                   alphaVars, chunkVars, splitVars, tableVars, geomVars, blpVars, adtVars, loadVars>>

\* map_object.load_all_groups(reader)
DoLoadAllGroups ==
    /\ pc = "wmo_load"
    /\ map_object.tag = "Ok"
    /\ mesh_groups' = load_all_groups(map_object.groups, arg.resources)
    /\ pc' = "load_all_groups"
    /\ UNCHANGED <<arg, reader, map_object, mesh_group,
                   alphaVars, chunkVars, splitVars, tableVars, geomVars, blpVars, adtVars, loadVars>>

NextGroup == DoWmoLoad \/ DoGroupLoad \/ DoLoadAllGroups

SpecGroup == InitGroup /\ [][NextGroup]_vars

(***************************************************************************)
(* Group loads in flight.  Each MeshGroupInfo::load call opens its own     *)
(* stream handle and decodes into a MeshGroup local to read_group_file;    *)
(* calls from different threads interleave at chunk granularity.           *)
(***************************************************************************)
IdleCall == [state |-> "idle"]

\* reader.open(&self.resource_key)? and the locals of read_group_file
load_open(group, resources) ==
    IF group.resource_key \notin DOMAIN resources
    THEN [state |-> "returned", group |-> group, overlapped |-> FALSE,
          result |-> Err("NotFound")]
    ELSE [state |-> "reading", group |-> group, overlapped |-> FALSE,
          input |-> resources[group.resource_key], mesh_group |-> NewMeshGroup]

\* one pass of the chunk loop of read_group_file on the locals of one call
load_chunk(call) ==
    IF call.input[1].token = "Err"
    THEN [call EXCEPT !.mesh_group = [call.mesh_group EXCEPT !.res = Err("UnexpectedEof")]]
    ELSE [call EXCEPT !.input = Tail(call.input),
                      !.mesh_group = group_chunk(call.input[1], call.mesh_group)]

\* mutant of load_step: the mesh under construction is one buffer that every
\* call in flight writes to
load_step_SharedMesh(in_flight, c) ==
    LET stepped == load_chunk(in_flight[c])
    IN  [d \in DOMAIN in_flight |->
            IF d = c THEN stepped
            ELSE IF in_flight[d].state = "reading"
            THEN [in_flight[d] EXCEPT !.overlapped = TRUE,
                                      !.mesh_group = stepped.mesh_group]
            ELSE in_flight[d]]

\* call c runs one pass of its chunk loop while the other calls stand still;
\* a call that is reading meanwhile is marked as overlapped
load_step(in_flight, c) ==
    [d \in DOMAIN in_flight |->
        IF d = c THEN load_chunk(in_flight[c])
        ELSE IF in_flight[d].state = "reading"
        THEN [in_flight[d] EXCEPT !.overlapped = TRUE]
        ELSE in_flight[d]]

\* the end of read_group_file: the error that stopped the loop, or Ok(mesh_group)
load_return(call) ==
    [state |-> "returned", group |-> call.group, overlapped |-> call.overlapped,
     result |-> IF call.mesh_group.res # None THEN call.mesh_group.res
                ELSE [tag |-> "Ok", indexes |-> call.mesh_group.indexes,
                      vertices |-> call.mesh_group.vertices,
                      normals |-> call.mesh_group.normals,
                      texcoords |-> call.mesh_group.texcoords,
                      batches |-> call.mesh_group.batches]]

(***************************************************************************)
(* Inputs of the calls: MaxCalls threads, three group infos of which the   *)
(* last has no resource, and for the first two every choice among a        *)
(* well-formed file, a file with two MOGP chunks, a file whose version     *)
(* chunk comes last and is wrong, and a truncated file.                    *)
(***************************************************************************)
MaxCalls == 2

LoadFiles ==
    { << Mver(WMO_VERSION), Mogp(MOGP_HEADER, <<MoviSub, MovtSub>>) >>,
      << Mver(WMO_VERSION), Mogp(MOGP_HEADER, <<MovtSub>>), Mogp(MOGP_HEADER, <<MoviSub>>) >>,
      << Mogp(MOGP_HEADER, <<MoviSub>>), Mver(WMO_VERSION + 1) >>,
      << Mver(WMO_VERSION), [token |-> "Err", data |-> <<>>, subs |-> <<>>] >> }

LoadGroups == [g \in 1..3 |-> [resource_key |-> GroupKey(g - 1)]]

InitLoads ==
    /\ pc = "init"
    /\ arg \in {[groups |-> LoadGroups, resources |-> r] :
                   r \in [{GroupKey(0), GroupKey(1)} -> LoadFiles]}
    /\ reader = None
    /\ calls = [c \in 1..MaxCalls |-> IdleCall]
    /\ returned = [g \in 1..Len(LoadGroups) |-> {}]
    /\ IdleAlpha
    /\ IdleChunk
    /\ IdleSplit
    /\ IdleTable
    /\ IdleGeom
    /\ IdleWmo
    /\ IdleBlp
    /\ IdleAdt

\* a thread calls group.load(reader.clone()) on one of the groups
DoCallOpen(c) ==
    /\ calls[c].state = "idle"
    /\ \E g \in 1..Len(arg.groups) :
          calls' = [calls EXCEPT ![c] = load_open([resource_key |-> arg.groups[g].resource_key,
                                                   index |-> g], arg.resources)]
    /\ pc' = "load"
    /\ UNCHANGED <<arg, reader, returned, alphaVars, chunkVars, splitVars, tableVars,
                   geomVars, wmoVars, blpVars, adtVars>>

\* the thread of call c runs one pass of the chunk loop
DoCallChunk(c) ==
    /\ calls[c].state = "reading"
    /\ calls[c].mesh_group.res = None
    /\ calls[c].input # <<>>
    /\ calls' = load_step(calls, c)
    /\ UNCHANGED <<pc, arg, reader, returned, alphaVars, chunkVars, splitVars, tableVars,
                   geomVars, wmoVars, blpVars, adtVars>>

\* read_group_file returns to the caller of call c
DoCallReturn(c) ==
    /\ calls[c].state = "reading"
    /\ calls[c].mesh_group.res # None \/ calls[c].input = <<>>
    /\ calls' = [calls EXCEPT ![c] = load_return(calls[c])]
    /\ UNCHANGED <<pc, arg, reader, returned, alphaVars, chunkVars, splitVars, tableVars,
                   geomVars, wmoVars, blpVars, adtVars>>

\* the caller takes the result; the thread is free for another load
DoCallTaken(c) ==
    /\ calls[c].state = "returned"
    /\ returned' = [returned EXCEPT ![calls[c].group.index] = @ \cup {calls[c].result}]
    /\ calls' = [calls EXCEPT ![c] = IdleCall]
    /\ UNCHANGED <<pc, arg, reader, alphaVars, chunkVars, splitVars, tableVars,
                   geomVars, wmoVars, blpVars, adtVars>>

NextLoads ==
    \E c \in 1..MaxCalls :
        DoCallOpen(c) \/ DoCallChunk(c) \/ DoCallReturn(c) \/ DoCallTaken(c)

SpecLoads == InitLoads /\ [][NextLoads]_vars

(***************************************************************************)
(* adt.rs: the geometry helpers of a MapChunk: each_triangle and the       *)
(* MapChunkVertices iterator.  usize arithmetic that wraps is kept by its  *)
(* two's-complement reading: a negative number n stands for 2^w + n.       *)
(***************************************************************************)
QUADS_PER_SIDE == 8
OUTER_ROW == 9
INNER_ROW == 8

\* mutant of quad_triangles: the center is taken from the outer row
quad_triangles_OuterCenter(high_detail, row, column) ==
    LET row_offset == row * (OUTER_ROW + INNER_ROW)
        topleft == row_offset + column
        topright == topleft + 1
        center == row_offset + INNER_ROW + column
        botleft == row_offset + OUTER_ROW + INNER_ROW + column
        botright == botleft + 1
    IN  IF high_detail
        THEN << <<topleft, topright, center>>, <<topright, botright, center>>,
                <<botright, botleft, center>>, <<botleft, topleft, center>> >>
        ELSE << <<topleft, topright, botleft>>, <<topright, botright, botleft>> >>

\* the body of the inner loop of each_triangle: the triples passed to f
quad_triangles(high_detail, row, column) ==
    LET row_offset == row * (OUTER_ROW + INNER_ROW)
        topleft == row_offset + column
        topright == topleft + 1
        center == row_offset + OUTER_ROW + column
        botleft == row_offset + OUTER_ROW + INNER_ROW + column
        botright == botleft + 1
    IN  IF high_detail
        THEN << <<topleft, topright, center>>, <<topright, botright, center>>,
                <<botright, botleft, center>>, <<botleft, topleft, center>> >>
        ELSE << <<topleft, topright, botleft>>, <<topright, botright, botleft>> >>

InitTriangles ==
    /\ pc = "init"
    /\ arg \in [high_detail : BOOLEAN]
    /\ reader = None
    /\ triangles = <<>>
    /\ quad = 0
    /\ vertices = None
    /\ vertex = None
    /\ IdleAlpha
    /\ IdleChunk
    /\ IdleSplit
    /\ IdleTable
    /\ IdleWmo
    /\ IdleBlp
    /\ IdleAdt
    /\ IdleLoads

\* one pass of the inner loop: for row in 0..8 { for column in 0..8 { .. } }
DoEachTriangleQuad ==
    /\ pc \in {"init", "each_triangle"}
    /\ quad < QUADS_PER_SIDE * QUADS_PER_SIDE
    /\ triangles' = triangles \o quad_triangles(arg.high_detail, quad \div QUADS_PER_SIDE,
                                                quad % QUADS_PER_SIDE)
    /\ quad' = quad + 1
    /\ pc' = "each_triangle"
    /\ UNCHANGED <<arg, reader, vertices, vertex,
                   alphaVars, chunkVars, splitVars, tableVars, wmoVars, blpVars, adtVars, loadVars>>

\* both loops are exhausted: each_triangle returns
DoEachTriangleReturn ==
    /\ pc = "each_triangle"
    /\ quad = QUADS_PER_SIDE * QUADS_PER_SIDE
    /\ pc' = "each_triangle_return"
    /\ UNCHANGED <<arg, reader, geomVars,
                   alphaVars, chunkVars, splitVars, tableVars, wmoVars, blpVars, adtVars, loadVars>>

NextTriangles == DoEachTriangleQuad \/ DoEachTriangleReturn

SpecTriangles == InitTriangles /\ [][NextTriangles]_vars

\* Vector3::new(0.0, 0.0, 1.0)
UNIT_Z == [x |-> 0, y |-> 0, z |-> 1]

\* MapChunkVertices::next on the iterator at `index`; `a - b` on usize panics
\* when the build checks overflow and wraps otherwise
MapChunkVertices_next(map_chunk, index, overflow_checks) ==
    IF index >= Len(map_chunk.heights) THEN [index |-> index, item |-> None]
    ELSE LET square_row_offset == index % (OUTER_ROW + INNER_ROW)
             is_inner == square_row_offset < OUTER_ROW
             some(column) ==
                 [index |-> index + 1,
                  item |-> [tag |-> "Some",
                            is_inner |-> is_inner,
                            row |-> index \div (OUTER_ROW + INNER_ROW),
                            column |-> column,
                            height |-> map_chunk.heights[index + 1],
                            normal |-> IF index < Len(map_chunk.normals)
                                       THEN map_chunk.normals[index + 1]
                                       ELSE UNIT_Z]]
         IN  IF ~is_inner THEN some(square_row_offset)
             ELSE IF square_row_offset < OUTER_ROW /\ overflow_checks
             THEN [index |-> index, item |-> Panic("attempt to subtract with overflow")]
             ELSE some(square_row_offset - OUTER_ROW)

(***************************************************************************)
(* Vertex inputs: a chunk with up to MaxVertices heights, with no normals  *)
(* or as many normals as heights, under a build with or without overflow   *)
(* checks.                                                                 *)
(***************************************************************************)
MaxVertices == 20

VertexChunk(n, m) ==
    [heights |-> [i \in 1..n |-> <<i, 0, 128, 63>>],
     normals |-> [i \in 1..m |-> [x |-> i, y |-> 0 - i, z |-> 127]]]

InitVertices ==
    /\ pc = "init"
    /\ \E n \in 0..MaxVertices, overflow_checks \in BOOLEAN :
          \E m \in {0, n} :
             arg = [map_chunk |-> VertexChunk(n, m), overflow_checks |-> overflow_checks]
    /\ reader = None
    /\ triangles = None
    /\ quad = None
    /\ vertices = [index |-> 0]
    /\ vertex = None
    /\ IdleAlpha
    /\ IdleChunk
    /\ IdleSplit
    /\ IdleTable
    /\ IdleWmo
    /\ IdleBlp
    /\ IdleAdt
    /\ IdleLoads

\* iterator.next(), until it has returned None or panicked
DoVertexNext ==
    /\ \/ pc = "init"
       \/ pc = "next" /\ vertex.tag = "Some"
    /\ LET out == MapChunkVertices_next(arg.map_chunk, vertices.index, arg.overflow_checks)
       IN  /\ vertices' = [index |-> out.index]
           /\ vertex' = out.item
    /\ pc' = "next"
    /\ UNCHANGED <<arg, reader, triangles, quad,
                   alphaVars, chunkVars, splitVars, tableVars, wmoVars, blpVars, adtVars, loadVars>>

NextVertices == DoVertexNext

SpecVertices == InitVertices /\ [][NextVertices]_vars

(***************************************************************************)
(* Claims about the alpha-map decoder (checked under SpecAlpha)            *)
(***************************************************************************)

\* C1: AlphaMap::read_compressed returns either a format error or an alpha
\* map that holds exactly 4096 bytes, for every input byte sequence.
C1_CompressedHolds4096 ==
    pc = "read_compressed" =>
        \/ alpha_map.tag = "Err"
        \/ alpha_map.tag = "Ok" /\ Len(alpha_map.data) = AlphaSamples

\* C2: AlphaMap::read_raw consumes exactly 2048 bytes (is_u4) or 4096 bytes
\* (otherwise) and returns a truncation error, and no map, whenever fewer
\* bytes than that remain.
C2_RawConsumesWholeGrid ==
    pc = "read_raw" =>
        LET need == IF arg.is_u4 THEN AlphaSamples \div 2 ELSE AlphaSamples
        IN  IF Len(reader.buf) < need
            THEN alpha_map = Err("UnexpectedEof")
            ELSE alpha_map.tag = "Ok" /\ reader.pos = need

\* the i-th sample of a stored grid: byte i of an 8-bit grid; of a 4-bit grid
\* the low nibble of byte i/2 for even i and its high nibble for odd i
NthSample(map, i) ==
    IF map.is_u4
    THEN LET byte == map.data[i \div 2 + 1]
         IN  IF i % 2 = 0 THEN byte % 16 ELSE byte \div 16
    ELSE map.data[i + 1]

\* C3: AlphaMap::get(i) returns the i-th sample for every i in 0..4095,
\* whatever the value of the stored byte.
C3_GetReturnsIthSample ==
    sample # None =>
        /\ sample.tag = "Ok"
        /\ sample.value = NthSample(alpha_map, sample.index)

(***************************************************************************)
(* Claims about the chunk pre-scan (checked under SpecChunk)               *)
(***************************************************************************)
TokensAreText(recs, legion_m2) ==
    \A i \in 1..Len(recs) : Utf8Valid(TokenOf(recs[i].token, legion_m2))

\* the payloads of the records stored under one token, in stream order
RECURSIVE PayloadsOf(_, _, _)
PayloadsOf(recs, legion_m2, token) ==
    IF recs = <<>> THEN <<>>
    ELSE (IF TokenOf(recs[1].token, legion_m2) = token THEN <<recs[1].payload>> ELSE <<>>)
         \o PayloadsOf(Tail(recs), legion_m2, token)

AllRecordsReturned(res, recs, legion_m2) ==
    /\ res.tag = "Ok"
    /\ DOMAIN res.map = {TokenOf(recs[i].token, legion_m2) : i \in 1..Len(recs)}
    /\ \A t \in DOMAIN res.map : res.map[t] = PayloadsOf(recs, legion_m2, t)

IsSep(c) == c \in {SLASH, BACKSLASH}

\* index of the last separator char of the name, 0 when there is none
LastSep(chars) ==
    IF \E i \in 1..Len(chars) : IsSep(chars[i])
    THEN CHOOSE i \in 1..Len(chars) :
            IsSep(chars[i]) /\ \A j \in (i + 1)..Len(chars) : ~IsSep(chars[j])
    ELSE 0

\* index of the first dot after the last separator, Len + 1 when there is none
FirstDot(chars) ==
    IF \E i \in (LastSep(chars) + 1)..Len(chars) : chars[i] = DOT
    THEN CHOOSE i \in (LastSep(chars) + 1)..Len(chars) :
            chars[i] = DOT /\ \A j \in (LastSep(chars) + 1)..(i - 1) : chars[j] # DOT
    ELSE Len(chars) + 1

\* C8: split_resource_name(name) = (dir, stem, ext): dir is the prefix up to
\* and including the last '/' or '\', ext runs from the first '.' after that
\* separator to the end, and stem is what lies between.
C8_SplitAtLastSeparatorAndFirstDot ==
    pc = "split_resource_name" =>
        /\ parts.tag = "Ok"
        /\ parts.dir = SubSeq(arg.input, 1, LastSep(arg.input))
        /\ parts.file = SubSeq(arg.input, LastSep(arg.input) + 1, FirstDot(arg.input) - 1)
        /\ parts.ext = SubSeq(arg.input, FirstDot(arg.input), Len(arg.input))

(***************************************************************************)
(* Claims about the world-model root decoder (checked under SpecWmo)       *)
(***************************************************************************)
StormwindWmo == <<83, 116, 111, 114, 109, 119, 105, 110, 100, 46, 119, 109, 111>>
Stormwind003Wmo ==
    <<83, 116, 111, 114, 109, 119, 105, 110, 100, 95, 48, 48, 51, 46, 119, 109, 111>>

\* i in decimal, zero-padded to at least three digits (i < 10000)
AtLeast3Digits(i) ==
    (IF i >= 1000 THEN <<48 + (i \div 1000)>> ELSE <<>>)
        \o <<48 + ((i \div 100) % 10), 48 + ((i \div 10) % 10), 48 + (i % 10)>>

\* the keys the claim gives to the records of the group-info chunks of a
\* stream, d and s being the directory and stem the name splits into
RECURSIVE ClaimedKeys(_, _, _)
ClaimedKeys(d, s, chunks) ==
    IF chunks = <<>> THEN <<>>
    ELSE (IF chunks[1].token = "MOGI"
          THEN [k \in 1..(Len(chunks[1].data) \div 32) |->
                   d \o s \o <<95>> \o AtLeast3Digits(k - 1) \o <<46, 119, 109, 111>>]
          ELSE <<>>)
         \o ClaimedKeys(d, s, Tail(chunks))

FirstZero(table) ==
    IF \E k \in 1..Len(table) : table[k] = 0
    THEN (CHOOSE k \in 1..Len(table) :
             table[k] = 0 /\ \A j \in 1..(k - 1) : table[j] # 0) - 1
    ELSE Len(table)

Mipmaps == image.data.mipmaps

\* level k takes its byte range from offsets[k] and sizes[k]: the blob of a
\* Compressed level is that range of the resource
LevelsReadTheirSlots ==
    image.data.kind = "Compressed" =>
        \A k \in 1..Len(Mipmaps) :
            Mipmaps[k].blob = BytesAt(BlpFile(arg), arg.offsets[k], arg.sizes[k])

\* C4 (as claimed): the number of decoded mipmap levels is the index of the
\* first zero entry of the offset table (16 without one), whatever the size
\* table holds; level k takes its offset from offsets[k], its size from sizes[k].
C4_CountIsFirstZeroOffset ==
    (pc = "blp_load" /\ image.tag = "Ok") =>
        /\ Len(Mipmaps) = FirstZero(arg.offsets)
        /\ LevelsReadTheirSlots

\* C4 (amended): the number of decoded mipmap levels is the smaller of the
\* index of the first zero entry of the offset table and the index of the
\* first zero entry of the size table (16 when neither has a zero); level k
\* takes its offset from offsets[k] and its size from sizes[k].
C4_CountIsFirstZeroOfEither ==
    (pc = "blp_load" /\ image.tag = "Ok") =>
        /\ Len(Mipmaps) = Min(FirstZero(arg.offsets), FirstZero(arg.sizes))
        /\ LevelsReadTheirSlots

C4_Witness ==
    /\ pc = "blp_load"
    /\ image.tag = "Ok"
    /\ image.data.kind = "Compressed"
    /\ FirstZero(arg.offsets) = MIPMAP_SLOTS
    /\ FirstZero(arg.sizes) = 2
    /\ Len(Mipmaps) = 2

\* bit b (from 0) of a byte
BitOf(byte, b) == (byte \div (2 ^ b)) % 2

\* C5: every mipmap of an Indexed image with alpha depth 1 has exactly
\* width * height alpha values, each 0x00 or 0xFF, value k being 0xFF iff
\* bit (k mod 8) of source byte k / 8 (after the index bytes) is set.
C5_OneBitAlphaPerPixel ==
    (pc = "blp_load" /\ image.tag = "Ok" /\ image.data.kind = "Indexed"
        /\ arg.alpha_depth = 1) =>
        \A m \in 1..Len(Mipmaps) :
            LET alpha == Mipmaps[m].alpha_values
                pixels == arg.width * arg.height
                src(j) == BlpFile(arg)[arg.offsets[m] + pixels + j + 1]
            IN  /\ alpha.tag = "Some"
                /\ Len(alpha.bytes) = pixels
                /\ \A k \in 0..(Len(alpha.bytes) - 1) :
                      alpha.bytes[k + 1] = IF BitOf(src(k \div 8), k % 8) = 1 THEN 255 ELSE 0

\* C10: blp::load returns an error, and no image, whenever the first four
\* bytes are not "BLP2", or the version field is not 1, or the encoding
\* selector is not 1, 2 or 3.
C10_BadHeaderIsError ==
    pc = "blp_load" =>
        LET buf == BlpFile(arg)
            bad_magic == Len(buf) >= 4 /\ BytesAt(buf, 0, 4) # <<66, 76, 80, 50>>
            bad_version == Len(buf) >= 8 /\ LE32(BytesAt(buf, 4, 4)) # 1
            bad_encoding == Len(buf) >= 9 /\ buf[9] \notin {1, 2, 3}
        IN  (bad_magic \/ bad_version \/ bad_encoding) =>
                image \in {Err("InvalidData"), Err("UnexpectedEof")}

C10_Witness ==
    /\ pc = "blp_load"
    /\ arg.magic = <<66, 76, 80, 50>>
    /\ arg.version = 1
    /\ arg.encoding = 4
    /\ arg.cut = BlpFileLen
    /\ FirstZero(arg.offsets) > 0
    /\ image = Err("InvalidData")

(***************************************************************************)
(* Claims about the terrain tile decoder (checked under SpecAdt)           *)
(***************************************************************************)
\* the number of MCNK records of a resource
McnkRecords(file) ==
    Cardinality({i \in 1..ItemCount(file) : ItemAt(file, i).token = "MCNK"})

\* grid slot k (from 1) has source data when some resource of the call has at
\* least k MCNK records
HasSourceData(k) == \E n \in DOMAIN arg.resources : McnkRecords(arg.resources[n]) >= k

\* C6: MapTile::load returns a tile whose chunk grid has exactly 256 entries
\* for every number of MCNK records in the source files, zero and more than
\* 256 in one file included (the number of records never makes the call
\* fail); entries with no source data keep their default values.
C6_GridHas256ForAnyRecordCount ==
    pc = "load" =>
        /\ loaded # Panic("map_tile.chunks[map_chunk_index]")
        /\ loaded.tag = "Ok" =>
              /\ Len(map_tile.chunks) = 256
              /\ \A k \in 1..Len(map_tile.chunks) :
                    ~HasSourceData(k) => map_tile.chunks[k] = DefaultMapChunk

\* C11: for a Compressed image the compression kind depends on (alpha depth,
\* preferred-format hint) only: DXT5 when depth = 8 and hint = 7, otherwise
\* DXT3 when depth is 8 or 4, otherwise DXT1; and mipmap blob k is the
\* unmodified byte range [offset, offset + size) of the resource.
C11_CompressionKindAndRawBlobs ==
    (pc = "blp_load" /\ image.tag = "Ok" /\ arg.encoding = 2) =>
        /\ image.data.kind = "Compressed"
        /\ image.data.compression =
              CASE arg.alpha_depth = 8 /\ arg.preferred_format = 7 -> "DXT5"
                [] arg.alpha_depth = 8 /\ arg.preferred_format # 7 -> "DXT3"
                [] arg.alpha_depth = 4 -> "DXT3"
                [] OTHER -> "DXT1"
        /\ \A k \in 1..Len(image.data.mipmaps) :
              LET from == arg.offsets[k]
                  to == arg.offsets[k] + arg.sizes[k]
              IN  /\ to <= Len(BlpFile(arg))
                  /\ image.data.mipmaps[k].blob = [i \in 1..(to - from) |-> BlpFile(arg)[from + i]]

C11_Witness ==
    /\ pc = "blp_load"
    /\ image.tag = "Ok"
    /\ arg.encoding = 2
    /\ arg.alpha_depth = 8
    /\ arg.preferred_format = 0
    /\ image.data.compression = "DXT3"
    /\ Len(image.data.mipmaps) = 2
    /\ Len(image.data.mipmaps[2].blob) = arg.sizes[2]

\* C12: after a successful MapTile::load a texture layer has an alpha map if
\* and only if its USE_ALPHA_MAP flag is set and either its
\* ALPHA_MAP_COMPRESSED flag is set or big_alpha is not None, for every order
\* and presence of the MCLY and MCAL sub-chunks of the terrain chunk.
C12_AlphaMapIffFlagged ==
    (pc = "load" /\ loaded.tag = "Ok") =>
        \A k \in 1..Len(map_tile.chunks) :
            \A i \in 1..Len(map_tile.chunks[k].texture_layers) :
                LET layer == map_tile.chunks[k].texture_layers[i]
                IN  (layer.alpha_map # None) <=>
                        /\ Contains(layer.flags, USE_ALPHA_MAP)
                        /\ \/ Contains(layer.flags, ALPHA_MAP_COMPRESSED)
                           \/ arg.big_alpha # None

(***************************************************************************)
(* Claims about world-model group files (checked under SpecGroup)          *)
(***************************************************************************)
\* the items of a resource include a version chunk whose value is not 17
HasVersionMismatch(items) ==
    \E i \in 1..Len(items) :
        /\ items[i].token = "MVER"
        /\ Len(items[i].data) >= 4
        /\ LE32(SubSeq(items[i].data, 1, 4)) # 17

\* the resource key of the group the last MeshGroupInfo::load was called on
LoadedKey == map_object.groups[arg.group].resource_key

\* C13: wmo::load (root) and MeshGroupInfo::load (group) both return an
\* error, and no model, whenever the resource contains a version (MVER)
\* chunk whose value is not 17.
C13_VersionMismatchIsError ==
    /\ (pc = "wmo_load" /\ HasVersionMismatch(arg.chunks)) => map_object.tag = "Err"
    /\ (pc = "MeshGroupInfo_load" /\ LoadedKey \in DOMAIN arg.resources
            /\ HasVersionMismatch(arg.resources[LoadedKey]))
          => mesh_group.tag = "Err"

\* the groups of the loaded root whose own load succeeds
LoadableGroups ==
    {g \in 1..Len(map_object.groups) :
        MeshGroupInfo_load(map_object.groups[g], arg.resources).tag = "Ok"}

\* C14: MapObject::load_all_groups returns exactly the mesh groups whose
\* individual load succeeded, in group-info order: a group whose load fails
\* (missing resource, bad version, truncated data) is skipped, and the groups
\* before and after it and the root model are neither changed nor dropped.
C14_AllGroupsKeepsTheLoadable ==
    pc = "load_all_groups" =>
        /\ Len(mesh_groups) = Cardinality(LoadableGroups)
        /\ \A g \in LoadableGroups :
              mesh_groups[Cardinality({h \in LoadableGroups : h <= g})] =
                  MeshGroupInfo_load(map_object.groups[g], arg.resources)
        /\ map_object = wmo_load(arg.name, arg.chunks)

C14_Witness ==
    /\ pc = "load_all_groups"
    /\ LoadableGroups = {1, 3}
    /\ GroupKey(1) \in DOMAIN arg.resources
    /\ HasVersionMismatch(arg.resources[GroupKey(1)])
    /\ Len(mesh_groups) = 2
    /\ mesh_groups[1].indexes # <<>>
    /\ mesh_groups[2].normals # <<>>

(***************************************************************************)
(* Further claims about the map-tile loader (checked under SpecAdt)        *)
(***************************************************************************)
\* the files the call is to decode, in order: the root, then "_tex0" and
\* "_obj0" inserted before the tile name's own extension, each only when
\* exists() reports it present
ClaimedTargets ==
    LET n == CHOOSE n \in AdtNames : n.name = arg.name
        present(name) == Exists(arg.resources, name)
    IN  <<n.name>> \o SelectSeq(<<n.tex, n.obj>>, present)

\* C15: MapTile::load opens and decodes the named root file first; then, for
\* the names got by inserting "_tex0" and "_obj0" before the tile name's own
\* extension (in that order), it decodes the companion if and only if
\* exists() reports it present; a companion that does not exist is never
\* opened and causes no error.
C15_RootThenExistingCompanions ==
    /\ pc \in {"targets", "read_adt_file"} =>
          /\ [i \in 1..Len(adt_file.targets) |-> adt_file.targets[i].name] = ClaimedTargets
          /\ adt_file.targets[1].is_rootfile
    /\ (pc = "load" /\ loaded.tag = "Ok") =>
          /\ [i \in 1..Len(adt_file.targets) |-> adt_file.targets[i].name] = ClaimedTargets
          /\ adt_file.target = Len(ClaimedTargets)
    /\ (pc = "load" /\ loaded = Err("NotFound")) => ~Exists(arg.resources, arg.name)
\* the header fields of a chunk
HeaderFields(map_chunk) ==
    <<map_chunk.index_x, map_chunk.index_y, map_chunk.position, map_chunk.holes>>

\* the header fields that record k (from 0) of the root file carries
RootHeaderFields(k, high_res) ==
    << k % 16, k \div 16,
       << <<0, 0, 128, 63>>, <<0, 0, 0, 64>>, <<0, 0, 64, 64>> >>,
       IF high_res THEN [kind |-> "HighRes", high |-> <<1, 2, 3, 4, 5, 6, 7, 8>>]
       ELSE [kind |-> "LowRes", low |-> 265] >>

\* the number of layer records / height values in the sub-chunks of a record
RECURSIVE LayersIn(_)
LayersIn(subs) ==
    IF subs = <<>> THEN 0
    ELSE (IF subs[1].token = "MCLY" THEN Len(subs[1].data) \div 16 ELSE 0) + LayersIn(Tail(subs))

RECURSIVE HeightsIn(_)
HeightsIn(subs) ==
    IF subs = <<>> THEN 0
    ELSE (IF subs[1].token = "MCVT" THEN 145 ELSE 0) + HeightsIn(Tail(subs))

\* the decoded files that have a k-th MCNK record
FilesWithRecord(k) ==
    {i \in 1..Len(adt_file.targets) : arg.resources[adt_file.targets[i].name].count >= k}

RECURSIVE SumOver(_, _)
SumOver(S, f) ==
    IF S = {} THEN 0
    ELSE LET x == CHOOSE x \in S : TRUE IN f[x] + SumOver(S \ {x}, f)

\* after a successful load: slot k has the header fields of the root's k-th
\* record (the defaults when the root has none) and the sub-chunk data of the
\* k-th record of every decoded file
SlotsHoldRootHeaderAndAllData ==
    (pc = "load" /\ loaded.tag = "Ok") =>
        \A k \in 1..Len(map_tile.chunks) :
            LET root == arg.resources[arg.name]
                subs_of == [i \in 1..Len(adt_file.targets) |->
                               arg.resources[adt_file.targets[i].name].mcnk.subs]
            IN  /\ HeaderFields(map_tile.chunks[k]) =
                      IF k <= root.count THEN RootHeaderFields(k - 1, root.mcnk.high_res)
                      ELSE HeaderFields(DefaultMapChunk)
                /\ Len(map_tile.chunks[k].texture_layers) =
                      SumOver(FilesWithRecord(k),
                              [i \in 1..Len(adt_file.targets) |-> LayersIn(subs_of[i])])
                /\ Len(map_tile.chunks[k].heights) =
                      SumOver(FilesWithRecord(k),
                              [i \in 1..Len(adt_file.targets) |-> HeightsIn(subs_of[i])])

\* a step of the chunk loop over a non-root file keeps every header field
SplitFileKeepsHeaders ==
    (pc = "read_adt_file" /\ pc' = "read_adt_file"
        /\ ~adt_file.targets[adt_file.target].is_rootfile) =>
        \A k \in 1..Len(map_tile.chunks) :
            HeaderFields(map_tile'.chunks[k]) = HeaderFields(map_tile.chunks[k])

\* C16: decoding a non-root (texture-split or object-split) file leaves the
\* header fields of every chunk (index_x, index_y, position, holes)
\* unchanged: after load they equal the values set from the root file, or the
\* defaults when the root had no record for that slot; the n-th MCNK record
\* of each file contributes its sub-chunk data to grid slot n.
C16_SplitFilesKeepHeaders ==
    /\ []SlotsHoldRootHeaderAndAllData
    /\ [][SplitFileKeepsHeaders]_vars

C16_Witness ==
    /\ pc = "load"
    /\ loaded.tag = "Ok"
    /\ Len(adt_file.targets) = 2
    /\ arg.resources[arg.name].count = 1
    /\ arg.resources[adt_file.targets[2].name].count = MAP_CHUNK_COUNT - 1
    /\ Len(map_tile.chunks[1].texture_layers) = 2
    /\ map_tile.chunks[1].holes.kind = "HighRes"
    /\ Len(map_tile.chunks[2].texture_layers) = 1
    /\ HeaderFields(map_tile.chunks[2]) = HeaderFields(DefaultMapChunk)
\* the chunk item the next pass of the chunk loop of read_adt_file takes
NextItem ==
    LET file == arg.resources[adt_file.targets[adt_file.target].name]
    IN  IF adt_file.at < ItemCount(file) THEN ItemAt(file, adt_file.at + 1)
        ELSE [token |-> "", data |-> <<>>]

\* the u32 values of an id-list payload
IdsOf(bytes) == [i \in 1..(Len(bytes) \div 4) |-> LE32(SubSeq(bytes, 4 * i - 3, 4 * i))]

\* the names an id list selects from an offset map: one per listed offset
\* that is in the map, at the first place the offset is listed
NamesListed(ids, table) ==
    LET first(i) == ids[i] \in DOMAIN table /\ \A j \in 1..(i - 1) : ids[j] # ids[i]
        kept == SelectSeq([i \in 1..Len(ids) |-> i], first)
    IN  [j \in 1..Len(kept) |-> table[ids[kept[j]]]]

IdListStep ==
    /\ (pc = "read_adt_file" /\ NextItem.token = "MMID") =>
          /\ pc' = "read_adt_file"
          /\ map_tile'.m2 = map_tile.m2 \o NamesListed(IdsOf(NextItem.data), adt_file.m2_tmp)
          /\ adt_file'.m2_tmp = <<>>
          /\ map_tile'.wmo = map_tile.wmo
    /\ (pc = "read_adt_file" /\ NextItem.token = "MWID") =>
          /\ pc' = "read_adt_file"
          /\ map_tile'.wmo = map_tile.wmo \o NamesListed(IdsOf(NextItem.data), adt_file.wmo_tmp)
          /\ adt_file'.wmo_tmp = <<>>
          /\ map_tile'.m2 = map_tile.m2

\* C17: processing an id-list chunk (MMID or MWID) appends to the tile's name
\* list, in id-list order, the name stored at each listed offset that is
\* present in the matching offset map, removing it from the map as it is
\* used; an offset with no entry (a repeated offset included) and names left
\* in the map are skipped without error, and the map is empty afterwards.
C17_IdListDrainsOffsetMap == [][IdListStep]_vars

\* an id list <<9, 0, 0>> was applied to the map {0 :> "m1", 3 :> "m2"}
C17_Witness ==
    /\ pc = "read_adt_file"
    /\ adt_file.at = 2
    /\ LET file == arg.resources[adt_file.targets[adt_file.target].name]
       IN  /\ Len(file.head) = 2
           /\ file.head[1].token = "MMDX"
           /\ file.head[2].token = "MMID"
           /\ IdsOf(file.head[2].data) = <<9, 0, 0>>
    /\ map_tile.m2 = << <<109, 49>> >>
    /\ adt_file.m2_tmp = <<>>

(***************************************************************************)
(* Claims about string tables (checked under SpecTable)                    *)
(***************************************************************************)
\* the offsets (from 0) at which a non-empty string of the block starts
StringStarts(bytes) ==
    {p \in 0..(Len(bytes) - 1) : bytes[p + 1] # 0 /\ (p = 0 \/ bytes[p] = 0)}

\* the string that starts at offset p: the bytes up to the next zero byte
\* or the end of the block
StringAt(bytes, p) ==
    LET stops == {e \in (p + 1)..Len(bytes) : e = Len(bytes) \/ bytes[e + 1] = 0}
    IN  SubSeq(bytes, p + 1, CHOOSE e \in stops : \A f \in stops : e <= f)

\* C18: read_cstring_table_with scans a string block once left to right and
\* reports each non-empty string exactly once, keyed by the byte offset of
\* that string's first byte within the block, in increasing offset order;
\* runs of consecutive zero bytes produce no entry, and a final string that
\* is not followed by a zero byte is still reported.
C18_EachStringOnceByOffset ==
    pc = "read_cstring_table_with" =>
        /\ strings.tag = "Ok" <=> \A p \in StringStarts(arg) : Utf8Valid(StringAt(arg, p))
        /\ strings.tag = "Ok" =>
              /\ Len(strings.entries) = Cardinality(StringStarts(arg))
              /\ \A i \in 1..Len(strings.entries) :
                    /\ strings.entries[i].id \in StringStarts(arg)
                    /\ strings.entries[i].string = StringAt(arg, strings.entries[i].id)
                    /\ \A j \in 1..(i - 1) : strings.entries[j].id < strings.entries[i].id

\* the block 0 'a' 0 0 'a': a leading zero, a run of zeros, no final zero
C18_Witness ==
    /\ pc = "read_cstring_table_with"
    /\ arg = <<0, 97, 0, 0, 97>>
    /\ strings = [tag |-> "Ok", entries |-> <<[id |-> 1, string |-> <<97>>],
                                             [id |-> 4, string |-> <<97>>]>>]

(***************************************************************************)
(* Further claims about the chunk pre-scan (checked under SpecChunk)       *)
(***************************************************************************)
\* C19: every chunk record the chunk reader returns has a payload whose
\* length equals the record's declared little-endian length; a stream that
\* ends inside the length field or before the declared number of payload
\* bytes gives a truncation error (UnexpectedEof), never a shorter payload.
C19_ShortPayloadIsTruncation ==
    (pc = "read_chunks_into_map" /\ TokensAreText(arg.records, arg.legion_m2)) =>
        /\ Len(arg.tail) >= 4 => chunk_map = Err("UnexpectedEof")
        /\ chunk_map.tag = "Ok" =>
              \A t \in DOMAIN chunk_map.map :
                  chunk_map.map[t] = PayloadsOf(arg.records, arg.legion_m2, t)
(***************************************************************************)
(* Further claims about the image decoder (checked under SpecBlp)          *)
(***************************************************************************)
\* the palette entries are the bytes of the block that follows the header
\* tables, `stride` bytes apart: blue, green, red in that order
PaletteReadWithStride(stride) ==
    (pc = "blp_load" /\ image.tag = "Ok" /\ image.data.kind = "Indexed") =>
        LET block == BLP_HEADER + BLP_TABLES
        IN  /\ Len(BlpFile(arg)) >= block + stride * 256
            /\ Len(image.data.palette) = 256
            /\ \A k \in 0..255 :
                  image.data.palette[k + 1] =
                      [b |-> BlpFile(arg)[block + stride * k + 1],
                       g |-> BlpFile(arg)[block + stride * k + 2],
                       r |-> BlpFile(arg)[block + stride * k + 3]]

\* C20: for an Indexed image (encoding 1) the palette is decoded from exactly
\* 256 * 3 = 768 consecutive bytes following the header tables: entry k takes
\* blue, green and red from bytes 3k, 3k + 1 and 3k + 2 of that block.
C20_PaletteIsPacked768 == PaletteReadWithStride(3)

\* C20 as amended: the palette is decoded from 256 * 4 = 1024 consecutive
\* bytes following the header tables: entry k takes blue, green and red from
\* bytes 4k, 4k + 1 and 4k + 2 of that block, and byte 4k + 3 is dropped.
C20_PaletteIsPadded1024 == PaletteReadWithStride(4)

C20_Witness ==
    /\ pc = "blp_load"
    /\ image.tag = "Ok"
    /\ image.data.kind = "Indexed"
    /\ image.data.palette[2].b = BlpFile(arg)[BLP_HEADER + BLP_TABLES + 5]
    /\ image.data.palette[2].b # BlpFile(arg)[BLP_HEADER + BLP_TABLES + 4]
    /\ image.data.mipmaps # <<>>

(***************************************************************************)
(* Further claims about the world-model root (checked under SpecWmo)       *)
(***************************************************************************)
\* the positions of the chunks of one token in the stream of the call
ChunksOf(token) == {i \in 1..Len(arg.chunks) : arg.chunks[i].token = token}

\* the 64-byte records of the MOMT chunks, in stream and record order: each
\* is given by its chunk position and its record number (from 0)
MaterialRecordCount ==
    SumOver(ChunksOf("MOMT"), [i \in 1..Len(arg.chunks) |-> Len(arg.chunks[i].data) \div 64])

\* the place (from 0) in the ordered texture list of the string that starts
\* at offset o of MOTX chunk i
TexturePlace(i, o) ==
    SumOver({j \in ChunksOf("MOTX") : j < i},
            [j \in 1..Len(arg.chunks) |-> Cardinality(StringStarts(arg.chunks[j].data))])
        + Cardinality({q \in StringStarts(arg.chunks[i].data) : q < o})

\* the texture index an offset refers to: None when no string starts there
TextureIdOf(o) ==
    LET holders == {i \in ChunksOf("MOTX") : o \in StringStarts(arg.chunks[i].data)}
    IN  IF holders = {} THEN None
        ELSE [tag |-> "Some",
              value |-> TexturePlace(CHOOSE i \in holders : \A j \in holders : j <= i, o)]

\* the texture-table offset that material record m (from 1) carries
MaterialOffset(m) ==
    LET first == CHOOSE i \in ChunksOf("MOMT") : \A j \in ChunksOf("MOMT") : i <= j
    IN  LE32(SubSeq(arg.chunks[first].data, 64 * (m - 1) + 13, 64 * (m - 1) + 16))

\* C21: after a successful wmo::load the materials list has one entry per
\* 64-byte record of the MOMT chunk, in record order, and each entry's
\* texture_id is the index in the ordered texture list of the string whose
\* texture-table offset the record references (None when no string matches).
C21_OneMaterialPerRecord ==
    (pc = "wmo_load" /\ map_object.tag = "Ok") =>
        /\ Len(map_object.materials) = MaterialRecordCount
        /\ Cardinality(ChunksOf("MOMT")) = 1 =>
              \A m \in 1..Len(map_object.materials) :
                  map_object.materials[m].texture_id = TextureIdOf(MaterialOffset(m))

(***************************************************************************)
(* Claims about the sizes of a tile's lists (checked under SpecAdt)        *)
(***************************************************************************)
\* C22: in every tile returned by MapTile::load every chunk has between 0
\* and 4 texture layers, for every size and number of MCLY sub-chunks that
\* the root and companion files supply for the grid slot.
C22_AtMostFourLayers ==
    (pc = "load" /\ loaded.tag = "Ok") =>
        \A k \in 1..Len(map_tile.chunks) : Len(map_tile.chunks[k].texture_layers) <= 4

\* C23: in every tile returned by MapTile::load each chunk's heights list has
\* length 0 or exactly 145 and its normals list has length 0 or exactly 145,
\* even when a grid slot receives more than one MCVT or MCNR sub-chunk, from
\* one file or from the root and a companion file.
C23_HeightsAndNormalsAre0Or145 ==
    (pc = "load" /\ loaded.tag = "Ok") =>
        \A k \in 1..Len(map_tile.chunks) :
            /\ Len(map_tile.chunks[k].heights) \in {0, 145}
            /\ Len(map_tile.chunks[k].normals) \in {0, 145}

(***************************************************************************)
(* Claims about chunk geometry (checked under SpecTriangles, SpecVertices) *)
(***************************************************************************)
\* the corner vertices of quad (row, column) in the 145-sample layout
Corners(row, column) ==
    {row * 17 + column, row * 17 + column + 1,
     (row + 1) * 17 + column, (row + 1) * 17 + column + 1}

\* C24: MapChunk::each_triangle visits the 64 quads of the 8x8 grid in
\* row-major order and emits 4 triangles per quad (256 in all) in high
\* detail, each with the quad's inner-center vertex row*17 + 9 + column as
\* its third index, and 2 triangles per quad (128 in all) in low detail that
\* use the four corner vertices only; every emitted index is in 0..144.
C24_TrianglesCoverTheQuads ==
    pc = "each_triangle_return" =>
        LET per_quad == IF arg.high_detail THEN 4 ELSE 2
        IN  /\ Len(triangles) = 64 * per_quad
            /\ \A t \in 1..Len(triangles) :
                  LET q == (t - 1) \div per_quad
                      row == q \div 8
                      column == q % 8
                      tri == triangles[t]
                  IN  /\ \A i \in 1..3 : tri[i] \in 0..144
                      /\ {tri[1], tri[2]} \subseteq Corners(row, column)
                      /\ tri[1] # tri[2]
                      /\ IF arg.high_detail THEN tri[3] = row * 17 + 9 + column
                         ELSE tri[3] \in Corners(row, column) \ {tri[1], tri[2]}
            /\ \A q \in 0..63 :
                  UNION {{triangles[t][1], triangles[t][2]} :
                            t \in (q * per_quad + 1)..(q * per_quad + per_quad)}
                      \subseteq Corners(q \div 8, q % 8)

\* the last triangle of the last quad in high detail
C24_Witness ==
    /\ pc = "each_triangle_return"
    /\ arg.high_detail
    /\ Len(triangles) = 256
    /\ triangles[256] = <<143, 126, 135>>
    /\ triangles[254] = <<127, 144, 135>>

\* C25: the MapChunkVertices iterator over a chunk with n heights yields
\* exactly n vertices without panicking; for the vertex at index i, with
\* o = i mod 17 and row = i div 17, is_inner is true exactly when o >= 9 and
\* column is o - 9 for inner vertices and o for outer ones, so column is
\* always in 0..8; a missing normal is replaced by (0, 0, 1).
C25_VerticesFollowTheLayout ==
    pc = "next" =>
        /\ vertex.tag # "Panic"
        /\ vertex = None => vertices.index = Len(arg.map_chunk.heights)
        /\ vertex.tag = "Some" =>
              LET i == vertices.index - 1
                  o == i % 17
              IN  /\ vertex.is_inner <=> o >= 9
                  /\ vertex.row = i \div 17
                  /\ vertex.column = IF o >= 9 THEN o - 9 ELSE o
                  /\ vertex.column \in 0..8
                  /\ vertex.height = arg.map_chunk.heights[i + 1]
                  /\ vertex.normal = IF i < Len(arg.map_chunk.normals)
                                     THEN arg.map_chunk.normals[i + 1]
                                     ELSE [x |-> 0, y |-> 0, z |-> 1]

(***************************************************************************)
(* Claims about resource names with multi-byte chars (checked under        *)
(* SpecSplit)                                                              *)
(***************************************************************************)
\* C26: for every input string, multi-byte UTF-8 chars before or after the
\* last separator or dot included, split_resource_name returns without
\* panicking, dir + stem + ext equals the input, and stem contains no '.',
\* '/' or '\'.
C26_SplitIsTotalAndLossless ==
    pc = "split_resource_name" =>
        /\ parts.tag = "Ok"
        /\ parts.dir \o parts.file \o parts.ext = arg.input
        /\ \A i \in 1..Len(parts.file) : parts.file[i] \notin {DOT, SLASH, BACKSLASH}

(***************************************************************************)
(* Claims about the pre-scan table and its lookup (checked under SpecChunk)*)
(***************************************************************************)
\* the records the pre-scan reads from the stream: the complete records and,
\* when the stream goes on with a token and a length field, one more record
\* holding the payload bytes that are left
RecordsRead ==
    arg.records \o
        (IF Len(arg.tail) >= 8
         THEN <<[token |-> SubSeq(arg.tail, 1, 4),
                 payload |-> SubSeq(arg.tail, 9, Len(arg.tail))]>>
         ELSE <<>>)

\* the token of a record: its stored bytes mirrored, or as stored in the
\* sibling dialect
DialectToken(stored) ==
    IF arg.legion_m2 THEN stored ELSE <<stored[4], stored[3], stored[2], stored[1]>>

\* positions of the records read that carry the token, ascending
PositionsOf(token) == {i \in 1..Len(RecordsRead) : DialectToken(RecordsRead[i].token) = token}

\* the k-th smallest element of a set of positions
RECURSIVE KthOf(_, _)
KthOf(S, k) ==
    LET m == CHOOSE x \in S : \A y \in S : x <= y
    IN  IF k = 1 THEN m ELSE KthOf(S \ {m}, k - 1)

\* C27: the pre-scan table built from a chunk stream holds, for every token,
\* the payloads of all records with that token in their stream order, so the
\* number of payloads in the table equals the number of records read; the
\* token is the 4 stored bytes reversed in the default dialect and as stored
\* in the sibling dialect; get(token) returns the first payload of the token
\* and an error when the token never occurred.
C27_TableGroupsPayloadsInOrder ==
    /\ (pc = "read_chunks_into_map" /\ chunk_map.tag = "Ok") =>
          /\ DOMAIN chunk_map.map = {DialectToken(RecordsRead[i].token) : i \in 1..Len(RecordsRead)}
          /\ \A t \in DOMAIN chunk_map.map :
                /\ Len(chunk_map.map[t]) = Cardinality(PositionsOf(t))
                /\ \A k \in 1..Len(chunk_map.map[t]) :
                      chunk_map.map[t][k] = RecordsRead[KthOf(PositionsOf(t), k)].payload
          /\ SumOver(DOMAIN chunk_map.map, [t \in DOMAIN chunk_map.map |-> Len(chunk_map.map[t])])
                = Len(RecordsRead)
    /\ found # None =>
          IF PositionsOf(found.token) = {}
          THEN found.tag = "Err"
          ELSE /\ found.tag = "Ok"
               /\ found.data = RecordsRead[KthOf(PositionsOf(found.token), 1)].payload

\* two records with the same token and different payloads; the lookup returns
\* the payload of the first
C27_Witness ==
    /\ pc = "read_chunks_into_map"
    /\ ~arg.legion_m2
    /\ arg.tail = <<>>
    /\ arg.records = <<[token |-> <<82, 69, 86, 77>>, payload |-> <<7, 9>>],
                       [token |-> <<82, 69, 86, 77>>, payload |-> <<7>>]>>
    /\ chunk_map.tag = "Ok"
    /\ chunk_map.map[<<77, 86, 69, 82>>] = <<<<7, 9>>, <<7>>>>
    /\ found = [tag |-> "Ok", token |-> <<77, 86, 69, 82>>, data |-> <<7, 9>>]

(***************************************************************************)
(* Claims about group loads in flight (checked under SpecLoads)            *)
(***************************************************************************)
\* what load returns for a group when no other call is in flight
LoadedAlone(group) == MeshGroupInfo_load(group, arg.resources)

\* C28: per-group loads share no mutable state: under any interleaving of
\* load calls, each on its own stream handle, every call returns what it
\* returns when run alone, and repeating the load of a resource returns an
\* equal result.
C28_LoadsAreIndependent ==
    pc = "load" =>
        /\ \A c \in DOMAIN calls :
              calls[c].state = "returned" =>
                  /\ calls[c].result = LoadedAlone([resource_key |-> calls[c].group.resource_key])
                  /\ \A earlier \in returned[calls[c].group.index] : earlier = calls[c].result
        /\ \A g \in DOMAIN returned : Cardinality(returned[g]) <= 1

\* a call that ran while another call was reading returns a decoded group
\* that an earlier load of the same resource has returned before, while the
\* other call is half way through a different resource
C28_Witness ==
    /\ pc = "load"
    /\ calls[1].state = "returned"
    /\ calls[1].overlapped
    /\ calls[1].result.tag = "Ok"
    /\ calls[1].result.indexes # <<>>
    /\ returned[calls[1].group.index] = {calls[1].result}
    /\ calls[2].state = "reading"
    /\ calls[2].overlapped
    /\ calls[2].group.index # calls[1].group.index
    /\ calls[2].input # <<>>
    /\ calls[2].mesh_group.vertices # <<>>

====
